---- MODULE Spec2Model ----
(***************************************************************************)
(* Agentic-ClaritAI: the plan normalizer (tools/spec.py) and the           *)
(* notification table validator (notification_agent.py) as state machines. *)
(* Text is modelled character by character on TLA+ strings; decoded JSON   *)
(* values are tagged pairs <<kind, payload>>.                                *)
(***************************************************************************)
EXTENDS Integers, Sequences, FiniteSets, TLC

VARIABLES
    \* tools/spec.py: one call of parse_spec
    data,                  \* the decoded JSON document handed to parse_spec
    flowspec,              \* what the call produced: a FlowSpec or an exception
    pc,                    \* position of the parse_spec call
    \* notification_agent.py: the fields of one NotificationAgent
    conversation_history,
    notification_data,
    validation_errors,
    modifications_made,
    state,
    raw_input,
    lastCall,              \* the public method that returned last, its argument and reply
    \* tools/flow_templates.py and tools/auto_fix.py: one flow document
    cfg,                   \* the configuration handed to build_flow_xml
    xml,                   \* the text of the flow document
    fixes,                 \* the fix list of the last autofix
    passes,                \* the number of times autofix was applied to xml
    \* requirements_agent.py: the fields of one RequirementsAgent
    req_history,           \* conversation_history
    extracted_info,
    projects,
    req_state,             \* state
    reqCall,               \* the public method that returned last and its reply
    \* graph.py and tools/sf_cli.py: one run of the pipeline or of a deploy
    calls                  \* the calls the run made to the LLM, the file system and the CLI

normVars  == <<data, flowspec, pc>>
agentVars == <<conversation_history, notification_data, validation_errors,
               modifications_made, state, raw_input, lastCall>>
flowVars  == <<cfg, xml, fixes, passes>>
reqVars   == <<req_history, extracted_info, projects, req_state, reqCall>>
runVars   == <<calls>>
vars      == <<data, flowspec, pc, conversation_history, notification_data,
               validation_errors, modifications_made, state, raw_input, lastCall,
               cfg, xml, fixes, passes,
               req_history, extracted_info, projects, req_state, reqCall, calls>>

-----------------------------------------------------------------------------
(* Bounds of the explored input space.                                     *)

MaxActions == 2
MaxConditions == 2
MaxBlocks == 2
MaxRows == 2
MaxTurns == 1

-----------------------------------------------------------------------------
(* Python str primitives, on TLA+ strings.                                 *)

Ch(s, i) == SubSeq(s, i, i)

From(s, i) == SubSeq(s, i, Len(s))

\* the characters str.strip() removes and the regex class \s matches
Whitespace == {" ", "\t", "\n", "\r", "\f"}

UpperLetters == "ABCDEFGHIJKLMNOPQRSTUVWXYZ"

LowerLetters == "abcdefghijklmnopqrstuvwxyz"

Digits == "0123456789"

CharIn(c, alphabet) == \E i \in 1..Len(alphabet) : Ch(alphabet, i) = c

\* the regex class [A-Za-z0-9_]
IsWordChar(c) ==
    CharIn(c, UpperLetters) \/ CharIn(c, LowerLetters) \/ CharIn(c, Digits) \/ c = "_"

LowerCh(c) ==
    IF CharIn(c, UpperLetters)
    THEN Ch(LowerLetters, CHOOSE i \in 1..Len(UpperLetters) : Ch(UpperLetters, i) = c)
    ELSE c

\* str.lower()
RECURSIVE Lower(_)
Lower(s) ==
    IF s = "" THEN ""
    ELSE IF Len(s) = 1 THEN LowerCh(s)
    ELSE Lower(SubSeq(s, 1, Len(s) \div 2)) \o Lower(From(s, Len(s) \div 2 + 1))

\* s[i:i+len(p)] == p
StartsAt(s, i, p) == i >= 1 /\ i + Len(p) - 1 <= Len(s) /\ SubSeq(s, i, i + Len(p) - 1) = p

\* s.startswith(p)
StartsWith(s, p) == StartsAt(s, 1, p)

\* p in s
Contains(s, p) == \E i \in 1..(Len(s) + 1) : StartsAt(s, i, p)

\* s.find(p) + 1: the first position at or after i where p starts, 0 when none
Find(s, p, i) ==
    IF \E j \in i..Len(s) : StartsAt(s, j, p)
    THEN CHOOSE j \in i..Len(s) : StartsAt(s, j, p) /\ \A k \in i..(j - 1) : ~StartsAt(s, k, p)
    ELSE 0

\* length of the longest run of characters satisfying Test that starts at i
RunLen(s, i, Test(_)) ==
    IF i > Len(s) THEN 0
    ELSE (CHOOSE j \in i..(Len(s) + 1) :
              /\ \A k \in i..(j - 1) : Test(Ch(s, k))
              /\ (j = Len(s) + 1 \/ ~Test(Ch(s, j)))) - i

IsWs(c) == c \in Whitespace

IsUnderscore(c) == c = "_"

IsHash(c) == c = "#"

AllWs(s, i, j) == \A k \in i..j : IsWs(Ch(s, k))

\* position of the last character that is not whitespace, 0 when there is none
LastNonWs(s) == CHOOSE j \in 0..Len(s) : (j = 0 \/ ~IsWs(Ch(s, j))) /\ AllWs(s, j + 1, Len(s))

\* s[a-1:b], empty when a > b
Slice(s, a, b) == IF a > b THEN "" ELSE SubSeq(s, a, b)

\* str.strip()
Strip(s) == Slice(s, 1 + RunLen(s, 1, IsWs), LastNonWs(s))

\* str.split('\n'): never an empty list
RECURSIVE SplitLines(_)
SplitLines(s) ==
    IF Find(s, "\n", 1) = 0 THEN <<s>>
    ELSE <<SubSeq(s, 1, Find(s, "\n", 1) - 1)>> \o SplitLines(From(s, Find(s, "\n", 1) + 1))

\* sep.join(parts)
RECURSIVE Join(_, _)
Join(parts, sep) ==
    IF parts = << >> THEN ""
    ELSE IF Len(parts) = 1 THEN parts[1]
    ELSE parts[1] \o sep \o Join(Tail(parts), sep)

\* the sequences over S of length 0..n
SeqsUpTo(S, n) == UNION {[1..k -> S] : k \in 0..n}

-----------------------------------------------------------------------------
(* Decoded JSON values, and the dict and truthiness operations used on     *)
(* them.                                                                   *)

Null == <<"null", "">>

Str(s) == <<"str", s>>

Num(n) == <<"num", n>>

Dict(f) == <<"dict", f>>

List(q) == <<"list", q>>

Bool(b) == <<"bool", b>>

EmptyDict == [k \in {} |-> Null]

\* d.get(k)
Get(d, k) == IF k \in DOMAIN d THEN d[k] ELSE Null

\* d.get(k, default)
GetOr(d, k, default) == IF k \in DOMAIN d THEN d[k] ELSE default

\* bool(j)
Truthy(j) ==
    CASE j[1] = "null" -> FALSE
      [] j[1] = "str"  -> j[2] # ""
      [] j[1] = "num"  -> j[2] # 0
      [] j[1] = "list" -> j[2] # <<>>
      [] j[1] = "dict" -> DOMAIN j[2] # {}
      [] j[1] = "bool" -> j[2]

\* a or b
Or(a, b) == IF Truthy(a) THEN a ELSE b

\* a call's outcome: a returned value or a raised exception
Ret(x) == [exc |-> "", val |-> x]

Raise(e) == [exc |-> e, val |-> Null]

-----------------------------------------------------------------------------
(* tools/spec.py                                                           *)

\* the regex class [A-Za-z0-9_.] of the condition pattern's first group
IsCondIdentChar(c) == IsWordChar(c) \/ c = "."

IsQuote(c) == c \in {"'", "\""}

\* the alternation (==|=|!=|<>|contains), in the order the regex tries it
CondOps == <<"==", "=", "!=", "<>", "contains">>

\* The tail \s*['"]?(.+?)['"]?\s*$ of the condition pattern with the opening
\* quote looked for at a, group 3 at b..e-1 and the text after the closing
\* quote at f; q1 and q2 tell (1/0) whether each quote was taken.
CondTailOk(s, a, b, e, f, q1, q2) ==
    /\ (q1 = 1 => a <= Len(s) /\ IsQuote(Ch(s, a)))
    /\ e <= Len(s) + 1
    /\ \A k \in b..(e - 1) : Ch(s, k) # "\n"
    /\ (q2 = 1 => e <= Len(s) /\ IsQuote(Ch(s, e)))
    /\ AllWs(s, f, Len(s))

\* the ways the tail matches at position r, each <<w, q1, m, q2>> = spaces
\* skipped, opening quote taken, length of group 3, closing quote taken
CondTailMatches(s, r) ==
    { c \in (0..RunLen(s, r, IsWs)) \X {0, 1} \X (1..Len(s)) \X {0, 1} :
        CondTailOk(s, r + c[1], r + c[1] + c[2], r + c[1] + c[2] + c[3],
                   r + c[1] + c[2] + c[3] + c[4], c[2], c[4]) }

\* the regex engine's preference among them: \s* and ['"]? greedy, (.+?) lazy
CondTailRank(s, c) == ((c[1] * 2 + c[2]) * (Len(s) + 1) + (Len(s) - c[3])) * 2 + c[4]

CondTailBest(s, T) == CHOOSE c \in T : \A d \in T : CondTailRank(s, c) >= CondTailRank(s, d)

\* position of the operator once group 1, which starts at i0, has taken k characters
CondOpAt(s, i0, k) == i0 + k + RunLen(s, i0 + k, IsWs)

\* the <<k, o>> for which the pattern matches with group 1 of length k and
\* the o-th operator of the alternation; low is s in lower case (re.I)
CondCands(s, low, i0) ==
    { c \in (1..RunLen(s, i0, IsCondIdentChar)) \X (1..Len(CondOps)) :
        /\ StartsAt(low, CondOpAt(s, i0, c[1]), CondOps[c[2]])
        /\ CondTailMatches(s, CondOpAt(s, i0, c[1]) + Len(CondOps[c[2]])) # {} }

\* the engine's choice: the longest group 1, then the first alternative
CondBest(C) == CHOOSE c \in C : \A d \in C : c[1] > d[1] \/ (c[1] = d[1] /\ c[2] <= d[2])

\* the groups, given group 1 at i0..q-1 less trailing spaces, the operator
\* at q..r-1 and the chosen tail
CondGroups(s, i0, k, q, r, tail) ==
    << SubSeq(s, i0, i0 + k - 1), SubSeq(s, q, r - 1),
       SubSeq(s, r + tail[1] + tail[2], r + tail[1] + tail[2] + tail[3] - 1) >>

CondMatchAt(s, i0, k, q, r) == CondGroups(s, i0, k, q, r, CondTailBest(s, CondTailMatches(s, r)))

CondMatchWith(s, i0, best) ==
    CondMatchAt(s, i0, best[1], CondOpAt(s, i0, best[1]),
                CondOpAt(s, i0, best[1]) + Len(CondOps[best[2]]))

CondMatchAmong(s, i0, C) == IF C = {} THEN << >> ELSE CondMatchWith(s, i0, CondBest(C))

CondMatchFrom(s, low, i0) == CondMatchAmong(s, i0, CondCands(s, low, i0))

\* re.match(r"\s*([A-Za-z0-9_.]+)\s*(==|=|!=|<>|contains)\s*['\"]?(.+?)['\"]?\s*$", c, re.I):
\* <<group 1, group 2, group 3>>, or << >> when there is no match
MatchCondition(s) == CondMatchFrom(s, Lower(s), 1 + RunLen(s, 1, IsWs))

\* op_map of the dict branch; an operator it does not list is kept as it is
CondOpMapDict(op) ==
    CASE op \in {"=", "==", "equals"} -> "equals"
      [] op = "contains" -> "contains"
      [] op \in {"!=", "<>", "notequals"} -> "notEquals"
      [] OTHER -> op

\* op_map of the string branch, with its default "equals"
CondOpMapStr(op) ==
    CASE op \in {"=", "=="} -> "equals"
      [] op = "contains" -> "contains"
      [] op \in {"!=", "<>"} -> "notEquals"
      [] OTHER -> "equals"

\* the dict branch, given the resolved left, op and right values
CondFromDict(left, opv, right) ==
    IF opv[1] # "str" THEN Raise("AttributeError")
    ELSE IF left[1] # "null" /\ right[1] # "null"
    THEN Ret(Dict([left |-> left, op |-> Str(CondOpMapDict(Lower(opv[2]))), right |-> right]))
    ELSE Ret(Null)

\* the string branch, given the regex match
CondFromMatch(m) ==
    IF m # << >>
    THEN Ret(Dict([left |-> Str(m[1]), op |-> Str(CondOpMapStr(Lower(m[2]))),
                   right |-> Str(m[3])]))
    ELSE Ret(Null)

_normalize_condition(c) ==
    IF c[1] = "dict" THEN
        CondFromDict(Or(Or(Get(c[2], "left"), Get(c[2], "field")), Get(c[2], "name")),
                     Or(Or(Get(c[2], "op"), Get(c[2], "operator")), Str("equals")),
                     Or(Or(Get(c[2], "right"), Get(c[2], "value")), Get(c[2], "val")))
    ELSE IF c[1] = "str" THEN CondFromMatch(MatchCondition(c[2]))
    ELSE Ret(Null)

\* FlowAction's fields; the ones a dict does not give default to None
FlowActionFields ==
    {"type", "subject", "due_in_days", "owner", "what_id", "who_id", "priority", "status",
     "template_name", "to_addresses", "email_subject", "email_body"}

CreateTaskKeys == {"subject", "due_in_days", "owner", "what_id", "who_id", "priority", "status"}

SendEmailKeys == {"template_name", "to_addresses", "email_subject", "email_body"}

\* the alias table; a name it does not list is kept as it is
ActionAlias(t) ==
    CASE t \in {"createtask", "create_task", "task"} -> "create_task"
      [] t \in {"sendemail", "send_email", "email"} -> "send_email"
      [] OTHER -> t

\* the out.setdefault(...) calls of the create_task branch
CreateTaskDefaults ==
    [subject |-> Str("Automated Task"), due_in_days |-> Num(1), owner |-> Str("record_owner"),
     what_id |-> Str("record"), status |-> Str("Not Started"), priority |-> Str("Normal")]

\* the action parse_spec falls back to when no action is left
DefaultAction ==
    [type |-> Str("create_task"), subject |-> Str("Automated Task"), due_in_days |-> Num(1),
     owner |-> Str("record_owner"), what_id |-> Str("record"), status |-> Str("Not Started"),
     priority |-> Str("Normal")]

\* the string branch's substring hints, on the stripped lower-case text
ActionTypeOfText(s) ==
    IF Contains(s, "email") THEN "send_email"
    ELSE IF Contains(s, "task") \/ Contains(s, "create") THEN "create_task"
    ELSE ""

\* the dict branch: the aliased type t, else the type inferred from the keys
ActionTypeOfDict(a, t) ==
    IF t # "" THEN t
    ELSE IF DOMAIN a \cap SendEmailKeys # {} THEN "send_email"
    ELSE IF DOMAIN a \cap CreateTaskKeys # {} THEN "create_task"
    ELSE ""

\* a.get("type") or a.get("action") or a.get("name") or ""
ActionTypeValue(a) == Or(Or(Or(Get(a, "type"), Get(a, "action")), Get(a, "name")), Str(""))

\* The type _normalize_action settles on for entry a, "" when it finds none;
\* .strip() raises on a value that is not a string.
ActionType(a) ==
    IF a[1] = "str" THEN Ret(ActionTypeOfText(Lower(Strip(a[2]))))
    ELSE IF a[1] # "dict" THEN Ret("")
    ELSE IF ActionTypeValue(a[2])[1] # "str" THEN Raise("AttributeError")
    ELSE Ret(ActionTypeOfDict(a[2], ActionAlias(Lower(Strip(ActionTypeValue(a[2])[2])))))

\* the keys of a that are copied: present and not None
CopiedKeys(a, keys) == {k \in keys : k \in DOMAIN a /\ a[k][1] # "null"}

\* out for a create_task: the copied fields, then the defaults
CreateTaskOut(a, t) ==
    [k \in {"type"} \cup CopiedKeys(a, CreateTaskKeys) \cup DOMAIN CreateTaskDefaults |->
        IF k = "type" THEN Str(t)
        ELSE IF k \in CopiedKeys(a, CreateTaskKeys) THEN a[k]
        ELSE CreateTaskDefaults[k]]

\* out for any other type: the else branch, commented "send_email"
SendEmailOut(a, t) ==
    [k \in {"type"} \cup CopiedKeys(a, SendEmailKeys) |-> IF k = "type" THEN Str(t) ELSE a[k]]

\* the part of _normalize_action after the type is settled
ActionOut(a, r) ==
    IF r.exc # "" THEN Raise(r.exc)
    ELSE IF r.val = "" THEN Ret(Null)
    ELSE IF a[1] = "str" THEN Ret(Dict([type |-> Str(r.val)]))
    ELSE IF r.val = "create_task" THEN Ret(Dict(CreateTaskOut(a[2], r.val)))
    ELSE Ret(Dict(SendEmailOut(a[2], r.val)))

_normalize_action(a) ==
    IF a[1] \in {"str", "dict"} THEN ActionOut(a, ActionType(a)) ELSE Ret(Null)

\* the truthy values among the outcomes rs, in order, or the first exception
RECURSIVE Collect(_)
Collect(rs) ==
    IF rs = << >> THEN Ret(<< >>)
    ELSE IF Head(rs).exc # "" THEN Raise(Head(rs).exc)
    ELSE IF Collect(Tail(rs)).exc # "" THEN Raise(Collect(Tail(rs)).exc)
    ELSE Ret((IF Truthy(Head(rs).val) THEN <<Head(rs).val>> ELSE << >>)
             \o Collect(Tail(rs)).val)

\* [y for c in conds if (y := _normalize_condition(c))]
NormalizeConditions(xs) == Collect([i \in 1..Len(xs) |-> _normalize_condition(xs[i])])

\* [y for a in acts if (y := _normalize_action(a))]
NormalizeActions(xs) == Collect([i \in 1..Len(xs) |-> _normalize_action(xs[i])])

\* the one-character strings a for loop over the string s yields
StrItems(s) == [i \in 1..Len(s) |-> Str(Ch(s, i))]

\* the list the comprehension iterates over x: a dict is wrapped in a list,
\* a number is not iterable
Iterate(x) ==
    CASE x[1] = "dict" -> Ret(<<x>>)
      [] x[1] = "list" -> Ret(x[2])
      [] x[1] = "str"  -> Ret(StrItems(x[2]))
      [] OTHER        -> Raise("TypeError")

\* data.get(key, []) or []
Entries(d, key) == Iterate(Or(GetOr(d, key, List(<< >>)), List(<< >>)))

\* re.match(r"^[A-Za-z0-9_]+$", v): $ also matches before a final line break
LabelMatches(v) ==
    /\ RunLen(v, 1, IsWordChar) >= 1
    /\ \/ RunLen(v, 1, IsWordChar) = Len(v)
       \/ (RunLen(v, 1, IsWordChar) = Len(v) - 1 /\ Ch(v, Len(v)) = "\n")

\* FlowSpec.no_spaces
no_spaces(v) == IF ~LabelMatches(v) THEN Raise("ValueError") ELSE Ret(v)

\* FlowAction(**d)
FlowAction(d) == [f \in FlowActionFields |-> Get(d, f)]

\* FlowSpec(**data): the required fields, then the flow_label validator
FlowSpec(d) ==
    IF ~({"flow_label", "object_api"} \subseteq DOMAIN d) THEN Raise("ValidationError")
    ELSE IF d["flow_label"][1] # "str" \/ d["object_api"][1] # "str" THEN Raise("ValidationError")
    ELSE IF no_spaces(d["flow_label"][2]).exc # "" THEN Raise("ValidationError")
    ELSE Ret([flow_label |-> no_spaces(d["flow_label"][2]).val,
              object_api |-> d["object_api"][2],
              trigger    |-> d["trigger"],
              conditions |-> [i \in 1..Len(d["conditions"]) |-> d["conditions"][i][2]],
              actions    |-> [i \in 1..Len(d["actions"]) |-> FlowAction(d["actions"][i][2])]])

\* the trigger, "Create" unless it is one of the three known ones
NormalizeTrigger(trig) ==
    IF trig \in {Str("Create"), Str("Update"), Str("CreateOrUpdate")} THEN trig[2] ELSE "Create"

\* the default action when none is left
OrDefaultAction(norm_actions) ==
    IF norm_actions = << >> THEN <<Dict(DefaultAction)>> ELSE norm_actions

\* data with its trigger, conditions and actions replaced
Normalized(d, trig, conds, acts) ==
    [k \in DOMAIN d \cup {"trigger", "conditions", "actions"} |->
        CASE k = "trigger"    -> trig
          [] k = "conditions" -> conds
          [] k = "actions"    -> acts
          [] OTHER            -> d[k]]

\* parse_spec from the normalized actions on
ParseSpecActions(d, nconds, nacts) ==
    IF nacts.exc # "" THEN Raise(nacts.exc)
    ELSE FlowSpec(Normalized(d, NormalizeTrigger(GetOr(d, "trigger", Str("Create"))),
                             nconds.val, OrDefaultAction(nacts.val)))

\* parse_spec from the normalized conditions on
ParseSpecConditions(d, nconds, acts) ==
    IF nconds.exc # "" THEN Raise(nconds.exc)
    ELSE IF acts.exc # "" THEN Raise(acts.exc)
    ELSE ParseSpecActions(d, nconds, NormalizeActions(acts.val))

ParseSpecDict(d, conds, acts) ==
    IF conds.exc # "" THEN Raise(conds.exc)
    ELSE ParseSpecConditions(d, NormalizeConditions(conds.val), acts)

\* parse_spec, from the decoded document on
parse_spec(doc) ==
    IF doc[1] # "dict" THEN Raise("AttributeError")
    ELSE ParseSpecDict(doc[2], Entries(doc[2], "conditions"), Entries(doc[2], "actions"))

-----------------------------------------------------------------------------
(* The documents parse_spec is explored on.                                *)

\* a key the document does not hold
Absent == <<"absent", "">>

\* a dict of the given keys, without the absent ones
MakeDict(f) == [k \in {x \in DOMAIN f : f[x] # Absent} |-> f[k]]

LabelChoices ==
    {Absent, Str("MyFlow"), Str("Lead_Flow_2"), Str("My Flow"), Str("MyFlow\n"),
     Str("My\nFlow"), Str("")}

TriggerChoices == {Absent, Str("Update"), Str("Delete")}

ActionEntries ==
    { Null,
      Num(5),
      Str("Send an Email to the owner"),
      Str(" Create Task "),
      Str("notify the owner"),
      Dict([type |-> Str("create_task"), subject |-> Str("Call"), owner |-> Null]),
      Dict([action |-> Str("SendEmail"), template_name |-> Str("Welcome"),
            subject |-> Str("ignored")]),
      Dict([type |-> Str("update_record"), template_name |-> Str("Welcome")]),
      Dict([due_in_days |-> Num(3)]),
      Dict([to_addresses |-> Str("a@b.c"), priority |-> Str("High")]),
      Dict([type |-> Str(""), name |-> Str(" Task ")]),
      Dict([note |-> Str("nothing known")]),
      Dict([type |-> Num(5)]) }

ActionsChoices ==
    {Absent, Null, Num(5), Str("send email")}
    \cup {a \in ActionEntries : a[1] = "dict"}
    \cup {List(q) : q \in SeqsUpTo(ActionEntries, MaxActions)}

ConditionEntries ==
    { Null,
      Dict([left |-> Str("Status"), op |-> Str("=="), right |-> Str("Active")]),
      Dict([field |-> Str("Status"), operator |-> Str("NotEquals"), value |-> Str("Closed")]),
      Dict([name |-> Str("Type"), val |-> Str("Partner")]),
      Dict([left |-> Str("Amount"), op |-> Str(">"), right |-> Str("5")]),
      Dict([left |-> Str("Status")]),
      Dict([left |-> Str("Status"), op |-> Num(5), right |-> Str("Active")]),
      Str("Status == 'Active'"),
      Str("Name CONTAINS \"Acme\" "),
      Str(" Type<>Partner"),
      Str("Amount > 5"),
      Str("always") }

ConditionsChoices ==
    {Absent, Null, Num(5), Str("a=b")}
    \cup {c \in ConditionEntries : c[1] = "dict"}
    \cup {List(q) : q \in SeqsUpTo(ConditionEntries, MaxConditions)}

Doc(label, object_api, trigger, conditions, actions) ==
    Dict(MakeDict([flow_label |-> label, object_api |-> object_api, trigger |-> trigger,
                   conditions |-> conditions, actions |-> actions]))

Documents ==
    {List(<< >>)}
    \cup {Doc(l, Str("Account"), tr, Absent, Absent) :
              l \in LabelChoices, tr \in TriggerChoices}
    \cup {Doc(l, Str("Account"), Absent, Absent, a) :
              l \in {Str("MyFlow"), Str("My Flow")}, a \in ActionsChoices}
    \cup {Doc(Str("MyFlow"), o, Absent, c, Absent) :
              o \in {Absent, Str("Account")}, c \in ConditionsChoices}

-----------------------------------------------------------------------------
(* notification_agent.py: _parse_and_validate                              *)

\* first position after the match of 'Subject:' (ws = FALSE) or of
\* 'Subject:\s*' (ws = TRUE) that starts at j
SubjectEnd(s, j, ws) == j + 8 + (IF ws THEN RunLen(s, j + 8, IsWs) ELSE 0)

\* re.split(r'Subject:\s*', s, flags=re.IGNORECASE) when ws, and
\* re.split(r'Subject:', s, flags=re.IGNORECASE) otherwise; low is s.lower()
RECURSIVE SplitSubject(_, _, _), SplitSubjectAt(_, _, _, _)
SplitSubject(s, low, ws) == SplitSubjectAt(s, low, ws, Find(low, "subject:", 1))

SplitSubjectAt(s, low, ws, j) ==
    IF j = 0 THEN <<s>>
    ELSE <<SubSeq(s, 1, j - 1)>>
         \o SplitSubject(From(s, SubjectEnd(s, j, ws)), From(low, SubjectEnd(s, j, ws)), ws)

\* a split that keeps the text before the first Subject: as a block
KeepHeader(parts) == parts

\* if len(parts) > 1: parts = parts[1:]
DropHeader(parts) == IF Len(parts) > 1 THEN Tail(parts) ELSE parts

\* the lines that end the email body
StopKeywords == {"Send when", "Send this if", "Sent when", "Send after", "-Inspector will"}

IsStopLine(line) == \E keyword \in StopKeywords : Contains(line, keyword)

\* the lines before the first business-rule line
RECURSIVE TakeBody(_)
TakeBody(lines) ==
    IF lines = << >> \/ IsStopLine(Head(lines)) THEN << >>
    ELSE <<Head(lines)>> \o TakeBody(Tail(lines))

\* what \s*_{2,} consumes at j once the w spaces there are skipped, 0 when it does not match
UnderscoresAfter(s, j, w) ==
    IF RunLen(s, j + w, IsUnderscore) >= 2 THEN w + RunLen(s, j + w, IsUnderscore) ELSE 0

\* what \s*_{2,} consumes at j, 0 when it does not match
WsUnderscores(s, j) == UnderscoresAfter(s, j, RunLen(s, j, IsWs))

\* what <prefix of length n>\s*_{2,} consumes at i, given that the prefix matches there
PrefixThenUnderscores(s, i, n) ==
    IF n >= 1 /\ WsUnderscores(s, i + n) > 0 THEN n + WsUnderscores(s, i + n) ELSE 0

\* what _{2,}address_{2,} consumes at i, u being the run of underscores there
AddressWrapped(s, i, u) ==
    IF u >= 2 /\ StartsAt(s, i + u, "address") /\ RunLen(s, i + u + 7, IsUnderscore) >= 2
    THEN u + 7 + RunLen(s, i + u + 7, IsUnderscore)
    ELSE 0

\* the alternation at\s*_{2,}|_{2,}address_{2,}|_{2,}, in that order
AddressMatch(s, i) ==
    IF StartsAt(s, i, "at") /\ WsUnderscores(s, i + 2) > 0 THEN 2 + WsUnderscores(s, i + 2)
    ELSE IF AddressWrapped(s, i, RunLen(s, i, IsUnderscore)) > 0
    THEN AddressWrapped(s, i, RunLen(s, i, IsUnderscore))
    ELSE IF RunLen(s, i, IsUnderscore) >= 2 THEN RunLen(s, i, IsUnderscore)
    ELSE 0

\* Length of the match of a placeholder pattern at position i of s, 0 when
\* it does not match there:
\*   "application"  Application\s*_{2,}
\*   "hash"         #{1,}\s*_{2,}
\*   "underscores"  _{2,}
\*   "address"      at\s*_{2,}|_{2,}address_{2,}|_{2,}
MatchLen(pat, s, i) ==
    CASE pat = "application" ->
             PrefixThenUnderscores(s, i, IF StartsAt(s, i, "Application") THEN 11 ELSE 0)
      [] pat = "hash"        -> PrefixThenUnderscores(s, i, RunLen(s, i, IsHash))
      [] pat = "underscores" ->
             IF RunLen(s, i, IsUnderscore) >= 2 THEN RunLen(s, i, IsUnderscore) ELSE 0
      [] pat = "address"     -> AddressMatch(s, i)

\* position of the leftmost match of pat in s, 0 when there is none
FirstMatch(pat, s) ==
    IF \E i \in 1..Len(s) : MatchLen(pat, s, i) > 0
    THEN CHOOSE i \in 1..Len(s) :
             MatchLen(pat, s, i) > 0 /\ \A k \in 1..(i - 1) : MatchLen(pat, s, k) = 0
    ELSE 0

\* re.sub(pat, repl, s): the non-overlapping matches, leftmost first
RECURSIVE ReSub(_, _, _), ReSubAt(_, _, _, _)
ReSub(pat, repl, s) == ReSubAt(pat, repl, s, FirstMatch(pat, s))

ReSubAt(pat, repl, s, i) ==
    IF i = 0 THEN s
    ELSE SubSeq(s, 1, i - 1) \o repl \o ReSub(pat, repl, From(s, i + MatchLen(pat, s, i)))

\* if new != old: log the note and keep the new text
Replaced(acc, new, note) ==
    IF new # acc.text THEN [text |-> new, mods |-> Append(acc.mods, note)] ELSE acc

SubjectApplication(acc, n) ==
    Replaced(acc, ReSub("application", "[Application]", acc.text),
             "Subject " \o n \o ": Replaced 'Application ____' with '[Application]'")

SubjectHash(acc, n) ==
    Replaced(acc, ReSub("hash", "#[Address]", acc.text),
             "Subject " \o n \o ": Replaced '#____' with '#[Address]'")

\* the subject as it is, no '____' replaced
SubjectKept(acc, n) == acc

SubjectUnderscores(acc, n) ==
    Replaced(acc, ReSub("underscores", "[Address]", acc.text),
             "Subject " \o n \o ": Replaced '____' with '[Address]'")

EmailApplication(acc, n) ==
    Replaced(acc, ReSub("application", "[Application]", acc.text),
             "Email " \o n \o ": Replaced 'Application ____' with '[Application]'")

EmailAddress(acc, n) ==
    Replaced(acc, ReSub("address", "[Address]", acc.text),
             "Email " \o n \o ": Replaced address placeholders with '[Address]'")

\* the placeholder clean-up of subject number n (a decimal string); mods is
\* modifications_made so far
RepairSubject(subject, n, mods) ==
    SubjectUnderscores(SubjectHash(SubjectApplication([text |-> subject, mods |-> mods], n), n), n)

RepairEmail(email, n, mods) ==
    EmailAddress(EmailApplication([text |-> email, mods |-> mods], n), n)

\* [l.strip() for l in lines if l.strip()]
RECURSIVE StrippedNonBlank(_)
StrippedNonBlank(lines) ==
    IF lines = << >> THEN << >>
    ELSE (IF Strip(Head(lines)) # "" THEN <<Strip(Head(lines))>> ELSE << >>)
         \o StrippedNonBlank(Tail(lines))

\* lines[-5:]
LastFive(lines) == SubSeq(lines, IF Len(lines) > 5 THEN Len(lines) - 4 ELSE 1, Len(lines))

\* a line that may name the milestone
IsMilestoneLine(line) ==
    /\ line # ""
    /\ ~Contains(line, "Notification Type")
    /\ ~Contains(line, "Verbiage")
    /\ ~Contains(line, "Business Rules")
    /\ ~Contains(line, "Subject:")
    /\ Len(line) > 3
    /\ ~StartsWith(line, "Send")
    /\ ~Contains(line, "\t")

\* the last qualifying line, else the default
LastMilestoneLine(lines, default) ==
    IF \E k \in 1..Len(lines) : IsMilestoneLine(lines[k])
    THEN lines[CHOOSE k \in 1..Len(lines) :
                   IsMilestoneLine(lines[k])
                   /\ \A j \in (k + 1)..Len(lines) : ~IsMilestoneLine(lines[j])]
    ELSE default

\* a milestone that ignores the text before the Subject:
NumberedMilestone(i, subject_splits) == "Notification " \o ToString(i)

\* the milestone of block i (counted from 1): from the text before its Subject:
MilestoneOf(i, subject_splits) ==
    IF i - 1 < Len(subject_splits) - 1
    THEN LastMilestoneLine(LastFive(StrippedNonBlank(SplitLines(subject_splits[i]))),
                           "Notification " \o ToString(i))
    ELSE "Notification " \o ToString(i)

\* notification_data.append({...}), with the notes of the block
AppendRow(acc, milestone, subject, email) ==
    [rows |-> Append(acc.rows, Dict([Milestone |-> Str(milestone), Subject |-> Str(subject.text),
                                     Email |-> Str(email.text)])),
     mods |-> email.mods]

BlockWithSubject(acc, lines, i, subject_splits, subject) ==
    AppendRow(acc, MilestoneOf(i, subject_splits), subject,
              RepairEmail(Strip(Join(TakeBody(Tail(lines)), "\n")), ToString(i), subject.mods))

\* one pass of the for loop, on the lines of the stripped block
ParseBlock(acc, lines, i, subject_splits) ==
    IF lines = << >> THEN acc
    ELSE BlockWithSubject(acc, lines, i, subject_splits,
                          RepairSubject(Strip(lines[1]), ToString(i), acc.mods))

\* for i, block in enumerate(parts), from block i on
RECURSIVE ParseBlocks(_, _, _, _)
ParseBlocks(acc, parts, i, subject_splits) ==
    IF i > Len(parts) THEN acc
    ELSE ParseBlocks(ParseBlock(acc, SplitLines(Strip(parts[i])), i, subject_splits),
                     parts, i + 1, subject_splits)

SplitNote(num_subjects) ==
    "Split input into " \o ToString(num_subjects)
    \o " separate notifications based on 'Subject:' lines."

CountMismatch(num_subjects, created) ==
    "Found " \o ToString(num_subjects) \o " 'Subject:' line(s) but only created "
    \o ToString(created) \o " notification(s)."

\* the three lists a call leaves in the agent
Parsed(rows, errors, mods) ==
    [notification_data |-> rows, validation_errors |-> errors, modifications_made |-> mods]

\* the check after the loop
CheckCount(num_subjects, acc) ==
    Parsed(acc.rows,
           IF Len(acc.rows) # num_subjects
           THEN <<CountMismatch(num_subjects, Len(acc.rows))>> ELSE << >>,
           acc.mods)

ParseParts(txt, parts) ==
    IF Len(parts) = 0
    THEN Parsed(<< >>, <<"No 'Subject:' lines found in the input. Please ensure your notifications include 'Subject:' lines.">>, << >>)
    ELSE CheckCount(Len(parts),
                    ParseBlocks([rows |-> << >>,
                                 mods |-> IF Len(parts) > 1 THEN <<SplitNote(Len(parts))>>
                                          ELSE << >>],
                                parts, 1, SplitSubject(txt, Lower(txt), FALSE)))

_parse_and_validate(txt) ==
    IF SplitLines(Strip(txt)) = << >> THEN Parsed(<< >>, <<"No data found.">>, << >>)
    ELSE ParseParts(txt, DropHeader(SplitSubject(txt, Lower(txt), TRUE)))

-----------------------------------------------------------------------------
(* notification_agent.py: _validate_rows and _apply_correction_with_llm    *)

RequiredFields == <<"Milestone", "Subject", "Email">>

\* a test that takes a present key for a filled field
KeyAbsent(row, field) == field \notin DOMAIN row

\* not row.get(field)
FieldMissing(row, field) == ~Truthy(Get(row, field))

\* the names of the missing fields, in the order they are tested
RECURSIVE MissingFrom(_, _)
MissingFrom(row, k) ==
    IF k > Len(RequiredFields) THEN << >>
    ELSE (IF FieldMissing(row, RequiredFields[k]) THEN <<RequiredFields[k]>> ELSE << >>)
         \o MissingFrom(row, k + 1)

\* str(x) of a cell value
Format(j) ==
    CASE j[1] = "null" -> "None"
      [] j[1] = "num"  -> ToString(j[2])
      [] OTHER         -> j[2]

RowError(row, i, missing) ==
    IF missing = << >> THEN << >>
    ELSE <<"Row " \o ToString(i) \o " (" \o Format(GetOr(row, "Milestone", Str("Unknown")))
           \o "): Missing " \o Join(missing, ", ")>>

\* The loop of _validate_rows from row i on, errors being the list so far:
\* row.get raises on a row that is not a dict, and the errors appended
\* before that stay in validation_errors.
RECURSIVE ValidateFrom(_, _, _)
ValidateFrom(rows, i, errors) ==
    IF i > Len(rows) THEN [exc |-> "", val |-> errors]
    ELSE IF rows[i][1] # "dict" THEN [exc |-> "AttributeError", val |-> errors]
    ELSE ValidateFrom(rows, i + 1,
                      errors \o RowError(rows[i][2], i, MissingFrom(rows[i][2], 1)))

_validate_rows(rows) == ValidateFrom(rows, 1, << >>)

\* What chat() may do: raise, or return a text that is not JSON, or return
\* the JSON value v: <<"raise", "">>, <<"text", "">>, <<"json", v>>.
ChatRaises == <<"raise", "">>

ChatText == <<"text", "">>

ChatJson(v) == <<"json", v>>

FailedToApply(e) == "Failed to apply correction: " \o e

CouldNotApply == "Could not apply corrections. Please paste the corrected table."

\* the `if "rows" in parsed` branch: the rows are stored, then validated
ApplyRows(rows, checked, mods) ==
    IF checked.exc = "" THEN Parsed(rows, checked.val, mods)
    ELSE Parsed(rows, Append(checked.val, FailedToApply(checked.exc)), mods)

\* `"rows" in parsed` for a parsed JSON value: a key of a dict, an item of
\* a list, a substring of a string; a number raises
HasRows(parsed) ==
    CASE parsed[1] = "dict" -> "rows" \in DOMAIN parsed[2]
      [] parsed[1] = "list" -> \E k \in 1..Len(parsed[2]) : parsed[2][k] = Str("rows")
      [] parsed[1] = "str"  -> Contains(parsed[2], "rows")
      [] OTHER -> FALSE

\* _apply_correction_with_llm, given what chat() did and the three lists
\* before the call; the value under 'rows' is a JSON list
_apply_correction_with_llm(reply, cur) ==
    IF reply[1] = "raise" THEN
        Parsed(cur.notification_data,
               Append(cur.validation_errors, FailedToApply("ConnectionError")),
               cur.modifications_made)
    ELSE IF reply[1] = "text" THEN
        Parsed(cur.notification_data,
               Append(cur.validation_errors, FailedToApply("JSONDecodeError")),
               cur.modifications_made)
    ELSE IF reply[2][1] \in {"num", "null"} \/ (reply[2][1] # "dict" /\ HasRows(reply[2])) THEN
        Parsed(cur.notification_data,
               Append(cur.validation_errors, FailedToApply("TypeError")),
               cur.modifications_made)
    ELSE IF ~HasRows(reply[2]) THEN
        Parsed(cur.notification_data, Append(cur.validation_errors, CouldNotApply),
               cur.modifications_made)
    ELSE ApplyRows(reply[2][2]["rows"][2], _validate_rows(reply[2][2]["rows"][2]),
                   cur.modifications_made)

-----------------------------------------------------------------------------
(* NotificationAgent.__init__                                              *)

AgentInit ==
    /\ conversation_history = << >>
    /\ notification_data = << >>
    /\ validation_errors = << >>
    /\ modifications_made = << >>
    /\ state = "validating"
    /\ raw_input = ""
    /\ lastCall = [op |-> "__init__", arg |-> "", ret |-> ""]

\* no parse_spec call is under way
NormIdle ==
    /\ data = Null
    /\ flowspec = Ret(Null)
    /\ pc = "idle"

\* no flow document is at hand
FlowIdle ==
    /\ cfg = Null
    /\ xml = << >>
    /\ fixes = << >>
    /\ passes = 0

\* RequirementsAgent.__init__: the fields before any project is loaded
NoInfo ==
    [project_id |-> Null, project_name |-> Null, subject |-> Null, description |-> Null,
     priority |-> Null, assignee |-> Null, due_date |-> Null, additional_notes |-> Null]

\* no run of the pipeline or of a deploy has made a call
RunIdle == calls = << >>

ReqIdle ==
    /\ req_history = << >>
    /\ extracted_info = NoInfo
    /\ projects = << >>
    /\ req_state = "greeting"
    /\ reqCall = [op |-> "__init__", arg |-> Null, ret |-> ""]

-----------------------------------------------------------------------------
(* NotificationAgent: the public methods.  Of a reply only its kind is     *)
(* kept: which generate_* method built it.                                 *)

\* a classification that asks for no review
StartStateWithoutReview(r) ==
    IF r.validation_errors # << >> THEN "correcting"
    ELSE IF Len(r.notification_data) > 0 THEN "complete"
    ELSE "validating"

\* the state start_validation leaves
StartState(r) ==
    IF r.validation_errors # << >> THEN "correcting"
    ELSE IF r.modifications_made # << >> THEN "review_needed"
    ELSE IF Len(r.notification_data) > 0 THEN "complete"
    ELSE "validating"

StartReply(r) ==
    IF r.validation_errors # << >> THEN "error_report"
    ELSE IF r.modifications_made # << >> THEN "review_message"
    ELSE IF Len(r.notification_data) > 0 THEN "success_message"
    ELSE "No data found."

\* the lists of the agent become those of r
Store(r) ==
    /\ notification_data' = r.notification_data
    /\ validation_errors' = r.validation_errors
    /\ modifications_made' = r.modifications_made

StartValidationWith(description_text, r) ==
    /\ raw_input' = description_text
    /\ Store(r)
    /\ state' = StartState(r)
    /\ lastCall' = [op |-> "start_validation", arg |-> description_text, ret |-> StartReply(r)]
    /\ UNCHANGED <<conversation_history, normVars, flowVars, reqVars, runVars>>

start_validation(description_text) ==
    StartValidationWith(description_text, _parse_and_validate(description_text))

\* accepting the modifications also forgets them
confirm_and_forget ==
    /\ state' = "complete"
    /\ modifications_made' = << >>
    /\ lastCall' = [op |-> "confirm_modifications", arg |-> "", ret |-> "accepted"]
    /\ UNCHANGED <<conversation_history, notification_data, validation_errors,
                   raw_input, normVars, flowVars, reqVars, runVars>>

confirm_modifications ==
    /\ state' = "complete"
    /\ lastCall' = [op |-> "confirm_modifications", arg |-> "", ret |-> "accepted"]
    /\ UNCHANGED <<conversation_history, notification_data, validation_errors,
                   modifications_made, raw_input, normVars, flowVars, reqVars, runVars>>

\* "\t" in user_input or "Subject:" in user_input
IsTablePaste(user_input) == Contains(user_input, "\t") \/ Contains(user_input, "Subject:")

\* the three lists as they are
Current == Parsed(notification_data, validation_errors, modifications_made)

\* the branch of process_user_response, chat() answering reply
Respond(user_input, reply) ==
    IF IsTablePaste(user_input) THEN _parse_and_validate(user_input)
    ELSE _apply_correction_with_llm(reply, Current)

\* the state process_user_response leaves, before being the state at the call
ResponseState(r, before) ==
    IF r.validation_errors # << >> THEN before
    ELSE IF r.modifications_made # << >> THEN "review_needed"
    ELSE IF Len(r.notification_data) > 0 THEN "complete"
    ELSE before

\* row.get(field, '').replace(...) raises on a value that is not a string
CellRaises(row, field) == GetOr(row[2], field, Str(""))[1] # "str"

\* the table of generate_review_message and generate_success_message:
\* the message, or the exception its first unprintable row raises
Rendered(message, rows) ==
    IF \E k \in 1..Len(rows) : \E field \in {"Milestone", "Subject", "Email"} :
           CellRaises(rows[k], field)
    THEN "AttributeError"
    ELSE message

\* what process_user_response returns, or the exception that leaves it
ResponseReply(r) ==
    IF r.validation_errors # << >> THEN "error_report"
    ELSE IF r.modifications_made # << >> THEN Rendered("review_message", r.notification_data)
    ELSE IF Len(r.notification_data) > 0 THEN Rendered("success_message", r.notification_data)
    ELSE "error_report"

ProcessUserResponseWith(user_input, r) ==
    /\ conversation_history' =
           Append(conversation_history, [role |-> "user", content |-> user_input])
    /\ Store(r)
    /\ state' = ResponseState(r, state)
    /\ lastCall' = [op |-> "process_user_response", arg |-> user_input, ret |-> ResponseReply(r)]
    /\ UNCHANGED <<raw_input, normVars, flowVars, reqVars, runVars>>

process_user_response(user_input, reply) ==
    ProcessUserResponseWith(user_input, Respond(user_input, reply))

\* the state update_from_table_edits leaves
TableState(errors, rows) ==
    IF errors = << >> /\ Len(rows) > 0 THEN "complete" ELSE "correcting"

UpdateFromTableEditsWith(edited_data, checked) ==
    /\ notification_data' = edited_data
    /\ validation_errors' = checked.val
    /\ state' = TableState(checked.val, edited_data)
    /\ lastCall' = [op |-> "update_from_table_edits", arg |-> edited_data,
                    ret |-> IF TableState(checked.val, edited_data) = "complete"
                            THEN "changes_applied" ELSE "error_report"]
    /\ UNCHANGED <<conversation_history, modifications_made, raw_input, normVars, flowVars, reqVars, runVars>>

\* edited_data is a list of dicts, as the table editor hands it over
update_from_table_edits(edited_data) ==
    UpdateFromTableEditsWith(edited_data, _validate_rows(edited_data))

reset ==
    /\ conversation_history' = << >>
    /\ notification_data' = << >>
    /\ validation_errors' = << >>
    /\ state' = "validating"
    /\ lastCall' = [op |-> "reset", arg |-> "", ret |-> ""]
    /\ UNCHANGED <<modifications_made, raw_input, normVars, flowVars, reqVars, runVars>>

-----------------------------------------------------------------------------
(* The inputs of a session.                                                *)

\* ticket descriptions handed to start_validation
Descriptions ==
    { "Subject: Permit Issued\nYour permit is ready.",
      "Application____ ____Subject: App Submitted\nYour app has been submitted.",
      "Subject: Application ____ received\nRevision at ____",
      "Inspection\nSubject: Passed\nAll good\nFinal\nsubject: Closed\nBye" }

\* what the user types into the chat
UserInputs ==
    { "Intake\tReceived\tHello",
      "remove the address" }

FullRow == Dict([Milestone |-> Str("Intake"), Subject |-> Str("Received"), Email |-> Str("Hello")])

NoEmailRow == Dict([Milestone |-> Str("Review"), Subject |-> Str("In review")])

\* a row whose milestone a model returns as a number
NumberedRow == Dict([Milestone |-> Num(1), Subject |-> Str("Received"), Email |-> Str("Hello")])

BlankRow == Dict([Milestone |-> Null, Subject |-> Str(""), Email |-> Str("Body")])

\* the rows of an edited table
RowChoices == {FullRow, NoEmailRow, BlankRow}

TableEdits == SeqsUpTo(RowChoices, MaxRows)

\* the lists a model may return under 'rows'
ChatRows == { << >>, <<FullRow>>, <<NoEmailRow>>, <<FullRow, Str("oops")>>, <<NumberedRow>> }

\* what chat() may do
ChatReplies ==
    {ChatRaises, ChatText, ChatJson(Dict(EmptyDict))}
    \cup {ChatJson(Dict([rows |-> List(rows)])) : rows \in ChatRows}

-----------------------------------------------------------------------------
(* A session with one agent.                                               *)

Init ==
    /\ NormIdle
    /\ AgentInit
    /\ FlowIdle
    /\ ReqIdle
    /\ RunIdle

StartValidation == \E description_text \in Descriptions : start_validation(description_text)

ConfirmModifications == confirm_modifications

ProcessUserResponse ==
    /\ Len(conversation_history) < MaxTurns
    /\ \E user_input \in UserInputs, reply \in ChatReplies :
           process_user_response(user_input, reply)

UpdateFromTableEdits == \E edited_data \in TableEdits : update_from_table_edits(edited_data)

Reset == reset

Next ==
    \/ StartValidation
    \/ ConfirmModifications
    \/ ProcessUserResponse
    \/ UpdateFromTableEdits
    \/ Reset

Spec == Init /\ [][Next]_vars

-----------------------------------------------------------------------------
(* One call of start_validation by a fresh agent, over texts assembled     *)
(* from a header and up to MaxBlocks 'Subject:' blocks.                    *)

Headers == {"", "Permit Issued\n", "Application____ ____", "Type\tVerbiage\nSend\n"}

\* a 'Subject:' line and what follows it
BlockChoices ==
    { "Subject: App Submitted\nYour app has been submitted.",
      "subject:Application ____ at #____\nRevision at ____\nSend when ready\nlater\n",
      "SUBJECT:\n\n",
      "Subject: Final Inspection\n",
      "Subject:  Permit __ \nSee __address__\nFinal Review\n",
      "sUbJeCt: x\n\tkeep\nSent when due\n" }

ParseTexts ==
    {header \o Join(blocks, "") : header \in Headers, blocks \in SeqsUpTo(BlockChoices, MaxBlocks)}

ParseOnce ==
    /\ lastCall.op = "__init__"
    /\ \E description_text \in ParseTexts : start_validation(description_text)

SpecParse == Init /\ [][ParseOnce]_vars

-----------------------------------------------------------------------------
(* One call of parse_spec on each document.                                *)

InitNorm ==
    /\ data \in Documents
    /\ flowspec = Ret(Null)
    /\ pc = "call"
    /\ AgentInit
    /\ FlowIdle
    /\ ReqIdle
    /\ RunIdle

\* the call ends with outcome r
ParseSpecEnds(r) ==
    /\ flowspec' = r
    /\ pc' = IF r.exc = "" THEN "returned" ELSE "raised"
    /\ UNCHANGED <<data, agentVars, flowVars, reqVars, runVars>>

ParseSpecReturns ==
    /\ pc = "call"
    /\ parse_spec(data).exc = ""
    /\ ParseSpecEnds(parse_spec(data))

ParseSpecRaises ==
    /\ pc = "call"
    /\ parse_spec(data).exc # ""
    /\ ParseSpecEnds(parse_spec(data))

NextNorm == ParseSpecReturns \/ ParseSpecRaises

SpecNorm == InitNorm /\ [][NextNorm]_vars

-----------------------------------------------------------------------------
(* Properties of parse_spec, stated on SpecNorm.                           *)

\* the items of the document's 'actions' value
InputActions == Entries(data[2], "actions").val

\* the items of the document's 'conditions' value
InputConditions == Entries(data[2], "conditions").val

\* entry a resolves to one of the two known action types
IsRecognizedAction(a) ==
    /\ a[1] \in {"str", "dict"}
    /\ ActionType(a).exc = ""
    /\ ActionType(a).val \in {"create_task", "send_email"}

\* C1: a FlowSpec returned by parse_spec never has zero actions, and when
\* the input 'actions' value is missing, empty or holds only unrecognized
\* entries the result holds exactly the default create_task action.
C1_DefaultActionWhenNoneRecognized ==
    pc = "returned" =>
        /\ Len(flowspec.val.actions) >= 1
        /\ (\A i \in 1..Len(InputActions) : ~IsRecognizedAction(InputActions[i]))
               => flowspec.val.actions = <<FlowAction(DefaultAction)>>

\* C2: every action of a FlowSpec returned by parse_spec has type
\* create_task or send_email; an entry of any other type has been dropped.
C2_OnlyKnownActionTypes ==
    pc = "returned" =>
        \A i \in 1..Len(flowspec.val.actions) :
            flowspec.val.actions[i].type \in {Str("create_task"), Str("send_email")}

\* the output conditions out are the normalized survivors of the input
\* entries, in the input's order
InInputOrder(out, in) ==
    \E f \in [1..Len(out) -> 1..Len(in)] :
        /\ \A i, j \in 1..Len(out) : i < j => f[i] < f[j]
        /\ \A i \in 1..Len(out) : _normalize_condition(in[f[i]]) = Ret(Dict(out[i]))

\* C3: every condition of a FlowSpec returned by parse_spec is a record
\* {left, op, right} with op one of equals, notEquals, contains, whether it
\* came from a dict or from a string, and the conditions keep the relative
\* order of the input.
C3_ConditionsCanonical ==
    pc = "returned" =>
        /\ \A i \in 1..Len(flowspec.val.conditions) :
               /\ DOMAIN flowspec.val.conditions[i] = {"left", "op", "right"}
               /\ flowspec.val.conditions[i].op
                      \in {Str("equals"), Str("notEquals"), Str("contains")}
        /\ InInputOrder(flowspec.val.conditions, InputConditions)

\* C4: a FlowSpec is constructed only with a flow_label that is non-empty
\* and made of characters in [A-Za-z0-9_] alone; a label with a space or a
\* line break never gets into a constructed FlowSpec.
C4_LabelIsIdentifier ==
    pc = "returned" =>
        /\ flowspec.val.flow_label # ""
        /\ \A k \in 1..Len(flowspec.val.flow_label) : IsWordChar(Ch(flowspec.val.flow_label, k))

-----------------------------------------------------------------------------
(* Properties of the NotificationAgent session, stated on Spec.            *)

\* C5: after start_validation, process_user_response or
\* update_from_table_edits has returned with validation_errors non-empty,
\* the state is 'correcting', whatever it was before the call.
C5_ErrorsMeanCorrecting ==
    (/\ lastCall.op \in {"start_validation", "process_user_response", "update_from_table_edits"}
     /\ validation_errors # << >>)
        => state = "correcting"

\* C6: when start_validation has returned the state is no longer
\* 'validating': it is 'correcting' if validation_errors is non-empty,
\* else 'review_needed' if modifications_made is non-empty, else 'complete'.
C6_StartValidationClassifies ==
    lastCall.op = "start_validation" =>
        /\ state # "validating"
        /\ state = IF validation_errors # << >> THEN "correcting"
                   ELSE IF modifications_made # << >> THEN "review_needed"
                   ELSE "complete"

\* start_validation has returned with repairs to review
C6_ReviewNeededAfterStart ==
    /\ lastCall.op = "start_validation"
    /\ validation_errors = << >>
    /\ modifications_made # << >>
    /\ state = "review_needed"

\* the 1-based indices of the rows with an empty or missing required field
BadRows(rows) ==
    {i \in 1..Len(rows) :
        \E field \in {"Milestone", "Subject", "Email"} :
            \/ field \notin DOMAIN rows[i][2]
            \/ rows[i][2][field] \in {Null, Str("")}}

\* the k-th of them
KthBadRow(rows, k) ==
    CHOOSE i \in BadRows(rows) : Cardinality({j \in BadRows(rows) : j < i}) = k - 1

\* C10: update_from_table_edits(rows) replaces the record list by rows and
\* validates it again: every row with an empty or missing Milestone,
\* Subject or Email gives exactly one error that cites the row's 1-based
\* index, and the state is 'complete' exactly when there is no error and
\* at least one row, 'correcting' otherwise.
C10_TableEditsRevalidated ==
    lastCall.op = "update_from_table_edits" =>
        /\ notification_data = lastCall.arg
        /\ Len(validation_errors) = Cardinality(BadRows(lastCall.arg))
        /\ \A k \in 1..Len(validation_errors) :
               StartsWith(validation_errors[k],
                          "Row " \o ToString(KthBadRow(lastCall.arg, k)) \o " (")
        /\ state = IF validation_errors = << >> /\ Len(lastCall.arg) >= 1
                   THEN "complete" ELSE "correcting"

\* a table of one row that lacks only Email was submitted
C10_OneRowMissingEmail ==
    /\ lastCall.op = "update_from_table_edits"
    /\ lastCall.arg = <<NoEmailRow>>
    /\ state = "correcting"
    /\ validation_errors = <<"Row 1 (Review): Missing Email">>

-----------------------------------------------------------------------------
(* Properties of parsing, stated on SpecParse.                             *)

\* the positions of 'subject:' in the lower-case text low
PositionsIn(low) == {j \in 1..Len(low) : StartsAt(low, j, "subject:")}

\* the positions of the case-insensitive occurrences of 'Subject:' in s
SubjectPositions(s) == PositionsIn(Lower(s))

\* the declared notification count N
SubjectCount(s) == Cardinality(SubjectPositions(s))

\* the i-th of the positions pos
SubjectPosition(pos, i) == CHOOSE j \in pos : Cardinality({k \in pos : k < j}) = i - 1

\* the text of s between the i-th 'Subject:' and the next one
SubjectBlock(s, pos, i) ==
    SubSeq(s, SubjectPosition(pos, i) + 8,
           IF i = Cardinality(pos) THEN Len(s) ELSE SubjectPosition(pos, i + 1) - 1)

\* the subject line that follows the i-th 'Subject:'
SubjectLine(s, pos, i) == Strip(SplitLines(Strip(SubjectBlock(s, pos, i)))[1])

\* the notes of modifications_made about the split
SplitNotes == {k \in 1..Len(modifications_made) : StartsWith(modifications_made[k], "Split input into ")}

\* C7: parsing a text without any 'Subject:' (N = 0) fails with exactly
\* one validation error and yields no notification record.
C7_NoSubjectIsAnError ==
    (lastCall.op = "start_validation" /\ SubjectCount(lastCall.arg) = 0)
        => (Len(validation_errors) = 1 /\ notification_data = << >>)

\* the records, errors and notes expected of the text s with 'Subject:' at pos
RecordsFollowSubjects(s, pos) ==
    /\ Len(notification_data) = Cardinality(pos)
    /\ \A i \in 1..Len(notification_data) :
           notification_data[i][2].Subject
               = Str(RepairSubject(SubjectLine(s, pos, i), ToString(i), << >>).text)
    /\ validation_errors = << >>
    /\ Cardinality(SplitNotes) = IF Cardinality(pos) >= 2 THEN 1 ELSE 0
    /\ \A k \in SplitNotes :
           StartsWith(modifications_made[k],
                      "Split input into " \o ToString(Cardinality(pos)) \o " ")

\* C8: parsing a text with N >= 1 occurrences of 'Subject:', whatever their
\* case, yields exactly N records, the i-th from the i-th occurrence, and
\* no count-mismatch error; modifications_made holds exactly one 'Split
\* input into N' note when N >= 2 and none when N = 1.
C8_OneRecordPerSubject ==
    (lastCall.op = "start_validation" /\ SubjectCount(lastCall.arg) >= 1)
        => RecordsFollowSubjects(lastCall.arg, SubjectPositions(lastCall.arg))

\* a text with two occurrences in different case was parsed into two
\* different records
C8_TwoSubjectsParsed ==
    /\ lastCall.op = "start_validation"
    /\ SubjectCount(lastCall.arg) = 2
    /\ Contains(lastCall.arg, "Subject:")
    /\ Contains(lastCall.arg, "subject:")
    /\ Len(notification_data) = 2
    /\ notification_data[1][2].Subject # notification_data[2][2].Subject
    /\ Cardinality(SplitNotes) = 1

\* the scenario's input: placeholder text, then a Subject: block
ScenarioText == "Application____ ____Subject: App Submitted\nYour app has been submitted."

\* C9, as stated: parsing the scenario's input yields exactly one record
\* whose Subject contains [Application] and [Address], and
\* modifications_made logs both substitutions.
C9_PlaceholdersReachSubject ==
    (lastCall.op = "start_validation" /\ lastCall.arg = ScenarioText) =>
        /\ Len(notification_data) = 1
        /\ Contains(notification_data[1][2].Subject[2], "[Application]")
        /\ Contains(notification_data[1][2].Subject[2], "[Address]")
        /\ \E k \in 1..Len(modifications_made) : Contains(modifications_made[k], "[Application]")
        /\ \E k \in 1..Len(modifications_made) : Contains(modifications_made[k], "[Address]")

\* C9, amended: parsing the scenario's input yields exactly one record;
\* the placeholder text before 'Subject:' is not part of the subject, it
\* becomes the Milestone unchanged; the Subject is 'App Submitted', and
\* nothing is substituted or logged.
C9_PlaceholdersBecomeMilestone ==
    (lastCall.op = "start_validation" /\ lastCall.arg = ScenarioText) =>
        /\ notification_data =
               <<Dict([Milestone |-> Str("Application____ ____"),
                       Subject   |-> Str("App Submitted"),
                       Email     |-> Str("Your app has been submitted.")])>>
        /\ modifications_made = << >>
        /\ validation_errors = << >>

\* the scenario's input was parsed
C9_ScenarioParsed ==
    /\ lastCall.op = "start_validation"
    /\ lastCall.arg = ScenarioText
    /\ raw_input = ScenarioText
    /\ state = "complete"

-----------------------------------------------------------------------------
(* Properties of the correction path and of reset, stated on Spec.         *)

\* a correction-failed error is among the errors
CorrectionFailed(errors) ==
    \E k \in 1..Len(errors) :
        StartsWith(errors[k], "Failed to apply correction") \/ errors[k] = CouldNotApply

\* C11: when the LLM-assisted correction of process_user_response fails
\* (chat raises, its answer is not JSON, the JSON has no 'rows', or handling
\* the rows raises), a correction-failed error is reported and
\* notification_data is exactly what it was before the call.
C11_FailedCorrectionKeepsData ==
    [][(/\ conversation_history' # conversation_history
        /\ lastCall'.op = "process_user_response"
        /\ ~IsTablePaste(lastCall'.arg)
        /\ CorrectionFailed(validation_errors'))
           => notification_data' = notification_data]_vars

\* C12: reset returns every field of the session to its initial value:
\* raw_input, notification_data, validation_errors, modifications_made and
\* the conversation history empty, state 'validating'.
C12_ResetRestoresInit ==
    lastCall.op = "reset" =>
        /\ raw_input = ""
        /\ notification_data = << >>
        /\ validation_errors = << >>
        /\ modifications_made = << >>
        /\ conversation_history = << >>
        /\ state = "validating"


-----------------------------------------------------------------------------
(* tools/auto_fix.py.  A flow document is a sequence of tokens: its tags and
   the character data between them.  White space between tags is not a
   token, so a "\n" the code inserts next to a tag leaves no trace here. *)

HasTok(s, t) == \E i \in 1..Len(s) : s[i] = t

\* str.find on tokens: the first index at or after from where t stands, 0 for -1
FindTokFrom(s, t, from) ==
    IF \E i \in from..Len(s) : s[i] = t
    THEN CHOOSE i \in from..Len(s) : s[i] = t /\ \A j \in from..(i - 1) : s[j] # t
    ELSE 0

FindTok(s, t) == FindTokFrom(s, t, 1)

\* s[:i] + snippet + s[i:]
InsertAfter(s, i, snippet) == SubSeq(s, 1, i) \o snippet \o SubSeq(s, i + 1, Len(s))

_insert_after_close_label(block, snippet) ==
    IF FindTok(block, "</label>") = 0
    THEN IF FindTok(block, "</name>") = 0
         THEN block \o snippet
         ELSE InsertAfter(block, FindTok(block, "</name>"), snippet)
    ELSE InsertAfter(block, FindTok(block, "</label>"), snippet)

XYSnippet(x, y) ==
    <<"<locationX>", x, "</locationX>", "<locationY>", y, "</locationY>">>

\* the pair of the block and whether it changed
_ensure_xy_in_block(block, x, y) ==
    IF HasTok(block, "<locationX>") /\ HasTok(block, "<locationY>")
    THEN <<block, FALSE>>
    ELSE <<_insert_after_close_label(block, XYSnippet(x, y)), TRUE>>

ConnectorSnippet == <<"<connector>", "<targetReference>", "done", "</targetReference>", "</connector>">>

_ensure_connector_to_done(block) ==
    IF HasTok(block, "<connector>")
    THEN <<block, FALSE>>
    ELSE <<_insert_after_close_label(block, ConnectorSnippet), TRUE>>

RulesSnippet ==
    <<"<rules>", "<name>", "Rule_Never", "</name>", "<label>", "Rule_Never", "</label>",
      "<conditionLogic>", "and", "</conditionLogic>",
      "<conditions>",
      "<leftValueReference>", "$GlobalConstant.True", "</leftValueReference>",
      "<operator>", "EqualTo", "</operator>",
      "<rightValue>", "<booleanValue>", "false", "</booleanValue>", "</rightValue>",
      "</conditions>">>
    \o ConnectorSnippet \o <<"</rules>">>

\* <rightValueReference>\s*\$GlobalConstant\.False\s*</rightValueReference>, re.I, at token i
FalseReferenceAt(s, i) ==
    /\ i + 2 <= Len(s)
    /\ Lower(s[i]) = "<rightvaluereference>"
    /\ Lower(s[i + 1]) = "$globalconstant.false"
    /\ Lower(s[i + 2]) = "</rightvaluereference>"

FirstFalseReference(s) ==
    IF \E i \in 1..Len(s) : FalseReferenceAt(s, i)
    THEN CHOOSE i \in 1..Len(s) :
             FalseReferenceAt(s, i) /\ \A j \in 1..(i - 1) : ~FalseReferenceAt(s, j)
    ELSE 0

BooleanFalse == <<"<rightValue>", "<booleanValue>", "false", "</booleanValue>", "</rightValue>">>

RECURSIVE PatchFalseReferences(_)
PatchFalseReferencesAt(s, i) ==
    IF i = 0
    THEN s
    ELSE SubSeq(s, 1, i - 1) \o BooleanFalse \o PatchFalseReferences(SubSeq(s, i + 3, Len(s)))

\* the re.sub of _ensure_decision_rules
PatchFalseReferences(s) == PatchFalseReferencesAt(s, FirstFalseReference(s))

_ensure_decision_rules(block) ==
    IF HasTok(block, "<rules>")
    THEN <<PatchFalseReferences(block), PatchFalseReferences(block) # block>>
    ELSE <<_insert_after_close_label(block, RulesSnippet), TRUE>>

\* the second of two ensure steps: the block it yields, and whether either changed it
AndThen(first, second) == <<second[1], first[2] \/ second[2]>>

_fix_decision(block) ==
    AndThen(_ensure_xy_in_block(block, "220", "100"),
            _ensure_decision_rules(_ensure_xy_in_block(block, "220", "100")[1]))

_fix_record_creates(block) ==
    AndThen(_ensure_xy_in_block(block, "360", "100"),
            _ensure_connector_to_done(_ensure_xy_in_block(block, "360", "100")[1]))

_fix_action_calls(block) ==
    AndThen(_ensure_xy_in_block(block, "500", "100"),
            _ensure_connector_to_done(_ensure_xy_in_block(block, "500", "100")[1]))

OpenTag(kind)  == "<" \o kind \o ">"
CloseTag(kind) == "</" \o kind \o ">"

FixBlock(kind, block) ==
    CASE kind = "decisions"     -> _fix_decision(block)
      [] kind = "recordCreates" -> _fix_record_creates(block)
      [] kind = "actionCalls"   -> _fix_action_calls(block)

FixName(kind) ==
    CASE kind = "decisions"     -> "fix <decisions> (XY/rules)"
      [] kind = "recordCreates" -> "fix <recordCreates> (XY/connector)"
      [] kind = "actionCalls"   -> "fix <actionCalls> (XY/connector)"

\* a text and the fixes made on the way to it
Fixed(text, made) == [xml |-> text, fixes |-> made]

RECURSIVE SubBlocks(_, _)
\* one match of <kind>.*?</kind> from token i to token j, and the rest of the text
SubMatch(kind, s, i, fx, rest) ==
    Fixed(SubSeq(s, 1, i - 1) \o fx[1] \o rest.xml,
          (IF fx[2] THEN <<FixName(kind)>> ELSE << >>) \o rest.fixes)

SubBlocksIn(kind, s, i, j) ==
    IF j = 0
    THEN Fixed(s, << >>)
    ELSE SubMatch(kind, s, i, FixBlock(kind, SubSeq(s, i, j)),
                  SubBlocks(kind, SubSeq(s, j + 1, Len(s))))

SubBlocksAt(kind, s, i) ==
    IF i = 0
    THEN Fixed(s, << >>)
    ELSE SubBlocksIn(kind, s, i, FindTokFrom(s, CloseTag(kind), i + 1))

\* re.sub(r"<kind>.*?</kind>", callback, s, flags=re.DOTALL)
SubBlocks(kind, s) == SubBlocksAt(kind, s, FindTok(s, OpenTag(kind)))

\* the end of the match of <start>.*?</start> that begins at token i, 0 for none
StartEnd(s, i) == IF i = 0 THEN 0 ELSE FindTokFrom(s, "</start>", i + 1)

FixStartAt(s, i, j) ==
    IF j = 0
    THEN Fixed(s, << >>)
    ELSE IF HasTok(SubSeq(s, i, j), "<locationX>") /\ HasTok(SubSeq(s, i, j), "<locationY>")
         THEN Fixed(s, << >>)
         ELSE Fixed(InsertAfter(s, i, XYSnippet("100", "100")), <<"add XY to <start>">>)

\* the start step of autofix_locations_and_connectors
FixStart(s) == FixStartAt(s, FindTok(s, "<start>"), StartEnd(s, FindTok(s, "<start>")))

\* one more re.sub over the text reached so far
Then(sofar, next) == Fixed(next.xml, sofar.fixes \o next.fixes)

ThenSub(sofar, kind) == Then(sofar, SubBlocks(kind, sofar.xml))

autofix_locations_and_connectors(s) ==
    ThenSub(ThenSub(ThenSub(FixStart(s), "decisions"), "recordCreates"), "actionCalls")

-----------------------------------------------------------------------------
(* The texts autofix is applied to: a Flow of up to MaxElements elements, each
   one complete, lacking something, or with neither a label nor a name. *)

MaxElements == 2
MaxPasses == 2

Named(n) == <<"<name>", n, "</name>">>
Labelled(l) == <<"<label>", l, "</label>">>
Element(kind, inner) == <<OpenTag(kind)>> \o inner \o <<CloseTag(kind)>>

FalseReference == <<"<rightValueReference>", "$GlobalConstant.False", "</rightValueReference>">>

ElementChoices ==
    { Element("start", << >>),
      Element("start", XYSnippet("50", "50") \o ConnectorSnippet),
      Element("decisions", Named("post_start") \o Labelled("Router")),
      Element("decisions", Named("post_start")
                           \o <<"<rules>">> \o Named("Rule_Never") \o <<"<conditions>">>
                           \o FalseReference \o <<"</conditions>", "</rules>">>),
      Element("decisions", << >>),
      Element("recordCreates", Named("step1") \o Labelled("Create Task")),
      Element("recordCreates", Named("step1") \o XYSnippet("360", "100") \o ConnectorSnippet),
      Element("recordCreates", <<"<object>", "Task", "</object>">>),
      Element("actionCalls", Named("step2")),
      Element("actionCalls", <<"<actionName>", "emailSimple", "</actionName>">>) }

RECURSIVE Concat(_)
Concat(ss) == IF ss = << >> THEN << >> ELSE Head(ss) \o Concat(Tail(ss))

FixTexts ==
    { <<"<Flow>">> \o Concat(es) \o <<"</Flow>">> : es \in SeqsUpTo(ElementChoices, MaxElements) }

InitFix ==
    /\ NormIdle
    /\ AgentInit
    /\ cfg = Null
    /\ xml \in FixTexts
    /\ fixes = << >>
    /\ passes = 0
    /\ ReqIdle
    /\ RunIdle

\* apply_autofix: the text becomes what autofix returns for it
ApplyAutofix ==
    /\ passes < MaxPasses
    /\ xml' = autofix_locations_and_connectors(xml).xml
    /\ fixes' = autofix_locations_and_connectors(xml).fixes
    /\ passes' = passes + 1
    /\ UNCHANGED <<cfg, normVars, agentVars, reqVars, runVars>>

SpecFix == InitFix /\ [][ApplyAutofix]_vars

\* C13: applying autofix to its own output returns the text unchanged and an
\* empty fix list, also for elements that have neither a label nor a name.
C13_SecondPassChangesNothing ==
    [][passes >= 1 => (xml' = xml /\ fixes' = << >>)]_vars


\* the element of a kind that opens at token i: up to its first closing tag
ElementAt(s, kind, i) == SubSeq(s, i, FindTokFrom(s, CloseTag(kind), i + 1))

OpensElement(s, kind, i) ==
    /\ s[i] = OpenTag(kind)
    /\ FindTokFrom(s, CloseTag(kind), i + 1) # 0

Placed(block) == HasTok(block, "<locationX>") /\ HasTok(block, "<locationY>")

EveryElement(s, kind, tok) ==
    \A i \in 1..Len(s) : OpensElement(s, kind, i) =>
        /\ Placed(ElementAt(s, kind, i))
        /\ HasTok(ElementAt(s, kind, i), tok)

\* C14: after autofix the start element and every decisions, recordCreates and
\* actionCalls element hold locationX and locationY inside the element, every
\* decisions element holds a rules block, and every recordCreates and
\* actionCalls element holds a connector.
C14_EveryElementComplete ==
    passes >= 1 =>
        /\ \A i \in 1..Len(xml) :
               (OpensElement(xml, "start", i) /\ FindTok(xml, "<start>") = i)
                   => Placed(ElementAt(xml, "start", i))
        /\ EveryElement(xml, "decisions", "<rules>")
        /\ EveryElement(xml, "recordCreates", "<connector>")
        /\ EveryElement(xml, "actionCalls", "<connector>")


-----------------------------------------------------------------------------
(* tools/flow_templates.py.  The document is built as the token sequence of
   its text: a value the code interpolates is split at the tags it holds. *)

\* character data as a token: nothing when it is white space only
DataToken(s) == IF Strip(s) = "" THEN << >> ELSE <<Strip(s)>>

RECURSIVE Tokens(_)
\* s starts with "<"; gt is the position of the next ">"
TokensTag(s, gt) ==
    IF gt = 0 THEN DataToken(s) ELSE <<SubSeq(s, 1, gt)>> \o Tokens(From(s, gt + 1))

\* s starts with character data; lt is the position of the next "<"
TokensData(s, lt) ==
    IF lt = 0 THEN DataToken(s) ELSE DataToken(SubSeq(s, 1, lt - 1)) \o Tokens(From(s, lt))

\* the tags of a text and the character data between them
Tokens(s) ==
    IF s = "" THEN << >>
    ELSE IF Ch(s, 1) = "<" THEN TokensTag(s, Find(s, ">", 1))
    ELSE TokensData(s, Find(s, "<", 1))

\* <tag>{text}</tag>
Tagged(tag, text) == <<OpenTag(tag)>> \o Tokens(text) \o <<CloseTag(tag)>>

\* str(v) of an f-string
Text(v) ==
    CASE v[1] = "str"  -> v[2]
      [] v[1] = "num"  -> ToString(v[2])
      [] v[1] = "bool" -> IF v[2] THEN "True" ELSE "False"
      [] OTHER         -> "None"

\* v or default, for a field that holds a string or None
TextOr(v, default) == IF Truthy(v) THEN v[2] ELSE default

_xy(x, y) == XYSnippet(x, y)

EscCh(c) ==
    CASE c = "&"  -> "&amp;"
      [] c = "<"  -> "&lt;"
      [] c = ">"  -> "&gt;"
      [] c = "\"" -> "&quot;"
      [] c = "'"  -> "&apos;"
      [] OTHER    -> c

\* esc of _create_task_call_xml
RECURSIVE esc(_)
esc(s) ==
    IF s = "" THEN ""
    ELSE IF Len(s) = 1 THEN EscCh(s)
    ELSE esc(SubSeq(s, 1, Len(s) \div 2)) \o esc(From(s, Len(s) \div 2 + 1))

KnownTriggers == {"Create", "Update", "CreateOrUpdate"}

FilterOperator(op) ==
    CASE op = Str("equals")    -> "EqualTo"
      [] op = Str("notEquals") -> "NotEqualTo"
      [] op = Str("contains")  -> "Contains"
      [] OTHER                 -> "EqualTo"

\* left.startswith raises on a left that is truthy and not a string
BadLeft(c) == Truthy(Get(c, "left")) /\ Get(c, "left")[1] # "str"

\* the formula or filters block of condition c
FilterXml(object_api, c, left, val) ==
    IF Truthy(left) /\ StartsWith(left[2], "RecordType.")
    THEN <<"<formula>", "<dataType>", "Boolean", "</dataType>">>
         \o Tagged("expression", "$Record.RecordType.DeveloperName = '" \o Text(val) \o "'")
         \o <<"</formula>">>
    ELSE <<"<filters>">>
         \o Tagged("field", IF Truthy(left) THEN object_api \o "." \o left[2] ELSE "")
         \o <<"<operator>", FilterOperator(GetOr(c, "op", Str("equals"))), "</operator>">>
         \o Tagged("value", Text(val))
         \o <<"</filters>">>

RECURSIVE FiltersXml(_, _)
FiltersXml(object_api, conditions) ==
    IF conditions = << >> THEN << >>
    ELSE FilterXml(object_api, Head(conditions), Get(Head(conditions), "left"),
                   Get(Head(conditions), "right"))
         \o FiltersXml(object_api, Tail(conditions))

_start_block(spec, add_xy) ==
    IF spec.trigger \notin KnownTriggers THEN Raise("KeyError")
    ELSE IF \E i \in 1..Len(spec.conditions) : BadLeft(spec.conditions[i])
    THEN Raise("AttributeError")
    ELSE Ret(<<"<startElementReference>", "start", "</startElementReference>", "<start>">>
             \o (IF add_xy THEN _xy("100", "100") ELSE << >>)
             \o <<"<connector>", "<targetReference>", "post_start", "</targetReference>",
                  "</connector>">>
             \o Tagged("object", spec.object_api)
             \o Tagged("recordTriggerType", spec.trigger)
             \o <<"<triggerType>", "RecordAfterSave", "</triggerType>">>
             \o FiltersXml(spec.object_api, spec.conditions)
             \o <<"</start>">>)

OwnerRef(owner) ==
    IF owner = "record_owner" THEN "{!$Record.OwnerId}"
    ELSE IF owner = "creator" THEN "{!$Record.CreatedById}"
    ELSE IF StartsWith(owner, "user_id:") THEN From(owner, 9)
    ELSE "{!$Record.OwnerId}"

WhatRef(what_id) ==
    IF what_id = "record" THEN "{!$Record.Id}"
    ELSE IF StartsAt(what_id, Len(what_id) - 2, "__c") THEN "{!$Record." \o what_id \o "}"
    ELSE what_id

WhoRef(who_id) == IF who_id # "" THEN "{!$Record." \o who_id \o "}" ELSE ""

InputAssignment(field, value) ==
    <<"<inputAssignments>", "<field>", field, "</field>">> \o Tagged("value", value)
    \o <<"</inputAssignments>">>

\* int(act.get("due_in_days") or 0)
DueDays(act) == IF Truthy(act.due_in_days) THEN act.due_in_days[2] ELSE 0

CreateTaskElement(step_name, subject, due_days, owner_ref, what_ref, who_ref, act, add_xy) ==
    <<"<recordCreates>">>
    \o Tagged("name", step_name)
    \o Tagged("label", IF subject # "" THEN subject ELSE "Create Task")
    \o (IF add_xy THEN _xy("360", "100") ELSE << >>)
    \o InputAssignment("Subject", subject)
    \o (IF due_days # 0
        THEN InputAssignment("ActivityDate", "{!TODAY()+" \o ToString(due_days) \o "}")
        ELSE << >>)
    \o InputAssignment("OwnerId", esc(owner_ref))
    \o (IF what_ref # "" THEN InputAssignment("WhatId", esc(what_ref)) ELSE << >>)
    \o (IF who_ref # "" THEN InputAssignment("WhoId", esc(who_ref)) ELSE << >>)
    \o InputAssignment("Status", esc(TextOr(act.status, "Not Started")))
    \o InputAssignment("Priority", esc(TextOr(act.priority, "Normal")))
    \o <<"<object>", "Task", "</object>">>
    \o ConnectorSnippet
    \o <<"</recordCreates>">>

_create_task_call_xml(step_name, act, add_xy) ==
    CreateTaskElement(step_name, esc(TextOr(act.subject, "New Task")), DueDays(act),
                      OwnerRef(TextOr(act.owner, "record_owner")),
                      WhatRef(Strip(TextOr(act.what_id, "record"))),
                      WhoRef(Strip(TextOr(act.who_id, ""))), act, add_xy)

InputParameter(name, value) ==
    <<"<inputParameters>", "<name>", name, "</name>">> \o Tagged("stringValue", value)
    \o <<"</inputParameters>">>

\* the parameter of one field, when the field is set
ParameterOf(action, field, name) ==
    IF Truthy(action[field]) THEN InputParameter(name, Text(action[field])) ELSE << >>

SendEmailAssigns(action) ==
    IF Truthy(action.template_name)
    THEN InputParameter("emailTemplateNameOrId", Text(action.template_name))
    ELSE ParameterOf(action, "to_addresses", "recipientAddresses")
         \o ParameterOf(action, "email_subject", "emailSubject")
         \o ParameterOf(action, "email_body", "emailBody")

_send_email_action_xml(step_name, action, add_xy) ==
    <<"<actionCalls>">>
    \o Tagged("name", step_name)
    \o Tagged("label", step_name)
    \o (IF add_xy THEN _xy("500", "100") ELSE << >>)
    \o <<"<actionName>", "SendEmail", "</actionName>",
         "<actionType>", "coreAction", "</actionType>">>
    \o ConnectorSnippet
    \o SendEmailAssigns(action)
    \o <<"<storeOutputAutomatically>", "true", "</storeOutputAutomatically>", "</actionCalls>">>

\* the post_start decisions block
RouterXml(add_xy) ==
    <<"<decisions>", "<name>", "post_start", "</name>", "<label>", "post_start", "</label>">>
    \o (IF add_xy THEN _xy("220", "100") ELSE << >>)
    \o <<"<defaultConnector>", "<targetReference>", "step1", "</targetReference>",
         "</defaultConnector>">>
    \o RulesSnippet
    \o <<"</decisions>">>

\* what one pass of the loop over spec.actions appends
StepXml(act, step_index, add_xy) ==
    IF act.type = Str("create_task")
    THEN _create_task_call_xml("step" \o ToString(step_index), act, add_xy)
    ELSE IF act.type = Str("send_email")
    THEN _send_email_action_xml("step" \o ToString(step_index), act, add_xy)
    ELSE << >>

RECURSIVE StepsXml(_, _, _)
StepsXml(actions, step_index, add_xy) ==
    IF actions = << >> THEN << >>
    ELSE StepXml(Head(actions), step_index, add_xy)
         \o StepsXml(Tail(actions), step_index + 1, add_xy)

FlowHeader ==
    <<"<?xml version=\"1.0\" encoding=\"UTF-8\"?>",
      "<Flow xmlns=\"http://soap.sforce.com/2006/04/metadata\">",
      "<apiVersion>", "60.0", "</apiVersion>">>

BuilderType ==
    <<"<processMetadataValues>", "<name>", "BuilderType", "</name>", "<value>",
      "<stringValue>", "LightningFlowBuilder", "</stringValue>", "</value>",
      "</processMetadataValues>", "<processType>", "AutoLaunchedFlow", "</processType>">>

\* build_flow_xml from the start block on
BuildParts(spec, start, add_xy, emit_router) ==
    IF start.exc # "" THEN Raise(start.exc)
    ELSE Ret(FlowHeader
             \o Tagged("label", spec.flow_label)
             \o BuilderType
             \o start.val
             \o <<"<stages/>", "<status>", "Active", "</status>">>
             \o (IF emit_router THEN RouterXml(add_xy) ELSE << >>)
             \o StepsXml(spec.actions, 1, add_xy)
             \o <<"</Flow>">>)

\* (cfg or {}).get("defaults", {})
Defaults(c) == IF Truthy(c) THEN GetOr(c[2], "defaults", Dict(EmptyDict)) ELSE Dict(EmptyDict)

AddXY(d) == Truthy(GetOr(d[2], "add_canvas_coordinates", Bool(TRUE)))

EmitRouter(d) == Truthy(GetOr(d[2], "emit_decision_router", Bool(TRUE)))

BuildWith(spec, d) ==
    IF d[1] # "dict" THEN Raise("AttributeError")
    ELSE BuildParts(spec, _start_block(spec, AddXY(d)), AddXY(d), EmitRouter(d))

build_flow_xml(spec, c) == BuildWith(spec, Defaults(c))


-----------------------------------------------------------------------------
(* The planner's documents go through parse_spec, and the FlowSpec it returns
   through build_flow_xml under each configuration. *)

XmlActionEntries ==
    { Str(" Create Task "),
      Dict([type |-> Str("create_task"), subject |-> Str("Call <VIP> & co"),
            due_in_days |-> Num(3), owner |-> Str("user_id:005x"), who_id |-> Str("Contact__c")]),
      Dict([action |-> Str("SendEmail"), template_name |-> Str("Welcome")]),
      Dict([type |-> Str("send_email"), to_addresses |-> Str("a@b.c"),
            email_body |-> Str("See <recordCreates><name>x</name></recordCreates>")]),
      Dict([type |-> Str("update_record"), template_name |-> Str("Welcome")]) }

XmlConditions ==
    { Absent,
      List(<<Dict([left |-> Str("Status"), op |-> Str("!="), right |-> Str("Closed")]),
             Str("RecordType.Name == 'Partner'")>>),
      List(<<Dict([left |-> Num(5), right |-> Str("x")])>>) }

XmlDocuments ==
    {Doc(Str("My Flow"), Str("Account"), Absent, Absent, Absent)}
    \cup {Doc(Str("MyFlow"), Str("Account"), Str("Update"), c, Absent) : c \in XmlConditions}
    \cup {Doc(Str("MyFlow"), Str("Account"), Absent, Absent, List(q)) :
              q \in SeqsUpTo(XmlActionEntries, MaxActions)}

\* no configuration, an empty one, the fallback of load_agent_config, one
\* without positions, and a file whose defaults key is empty
Configs ==
    { Null,
      Dict(EmptyDict),
      Dict([defaults |-> Dict([org_alias_env |-> Str("SF_ORG"),
                               emit_decision_router |-> Bool(FALSE),
                               add_canvas_coordinates |-> Bool(TRUE)]),
            intents |-> List(<< >>)]),
      Dict([defaults |-> Dict([add_canvas_coordinates |-> Bool(FALSE)])]),
      Dict([defaults |-> Null]) }

InitXml ==
    /\ data \in XmlDocuments
    /\ flowspec = Ret(Null)
    /\ pc = "call"
    /\ AgentInit
    /\ cfg \in Configs
    /\ xml = << >>
    /\ fixes = << >>
    /\ passes = 0
    /\ ReqIdle
    /\ RunIdle

\* write_flow_package: build_flow_xml ends with outcome r
BuildFlowXmlEnds(r) ==
    /\ xml' = IF r.exc = "" THEN r.val ELSE << >>
    /\ pc' = IF r.exc = "" THEN "built" ELSE "build_raised"
    /\ UNCHANGED <<data, flowspec, cfg, fixes, passes, agentVars, reqVars, runVars>>

BuildFlowXmlReturns ==
    /\ pc = "returned"
    /\ build_flow_xml(flowspec.val, cfg).exc = ""
    /\ BuildFlowXmlEnds(build_flow_xml(flowspec.val, cfg))

BuildFlowXmlRaises ==
    /\ pc = "returned"
    /\ build_flow_xml(flowspec.val, cfg).exc # ""
    /\ BuildFlowXmlEnds(build_flow_xml(flowspec.val, cfg))

NextXml == ParseSpecReturns \/ ParseSpecRaises \/ BuildFlowXmlReturns \/ BuildFlowXmlRaises

SpecXml == InitXml /\ [][NextXml]_vars

IsStepOpen(t) == t \in {"<recordCreates>", "<actionCalls>"}

\* the opening tags the actions of a recognized type call for, in action order
RECURSIVE ExpectedSteps(_)
ExpectedSteps(actions) ==
    IF actions = << >> THEN << >>
    ELSE (CASE Head(actions).type = Str("create_task") -> <<"<recordCreates>">>
            [] Head(actions).type = Str("send_email")  -> <<"<actionCalls>">>
            [] OTHER                                   -> << >>)
         \o ExpectedSteps(Tail(actions))

EveryHas(s, kind, tok) ==
    \A i \in 1..Len(s) : OpensElement(s, kind, i) => HasTok(ElementAt(s, kind, i), tok)

\* C15: for a FlowSpec with actions and any configuration build_flow_xml emits
\* exactly one start element and one recordCreates or actionCalls element per
\* action of a recognized type, in action order, each holding a connector.
C15_OneElementPerRecognizedAction ==
    (pc \in {"built", "build_raised"} /\ flowspec.val.actions # << >>) =>
        /\ pc = "built"
        /\ Len(SelectSeq(xml, LAMBDA t : t = "<start>")) = 1
        /\ SelectSeq(xml, IsStepOpen) = ExpectedSteps(flowspec.val.actions)
        /\ EveryHas(xml, "start", "<connector>")
        /\ EveryHas(xml, "recordCreates", "<connector>")
        /\ EveryHas(xml, "actionCalls", "<connector>")

\* the target of the first connector at or after token i
ConnectorTarget(s, i) == s[FindTokFrom(s, "<targetReference>", FindTokFrom(s, "<connector>", i)) + 1]

\* C16: the start block's connector targets the router node post_start when
\* emit_decision_router is true and the first action node step1 when it is false.
C16_StartTargetsRouterOrFirstStep ==
    pc = "built" =>
        ConnectorTarget(xml, FindTok(xml, "<start>")) =
            IF EmitRouter(Defaults(cfg)) THEN "post_start" ELSE "step1"


-----------------------------------------------------------------------------
(* NotificationAgent: what leaves process_user_response.                  *)

\* the messages process_user_response returns to the user
UserMessages == {"error_report", "review_message", "success_message"}

\* C20: whatever chat() raises or returns, process_user_response returns a
\* message to the user; no exception leaves the call.
C20_ResponseIsAMessage ==
    lastCall.op = "process_user_response" => lastCall.ret \in UserMessages


-----------------------------------------------------------------------------
(* requirements_agent.py.  A project is a record of its id and name; None is
   index 0 among the projects.  extracted_info maps each field to a JSON value. *)

\* chat() answering with a text
Says(text) == <<"says", text>>

\* the least index of a non-empty set of indices
First(S) == CHOOSE i \in S : \A j \in S : i <= j

ExactMatches(ps, name) == {i \in 1..Len(ps) : Lower(ps[i].name) = Lower(name)}

PartialMatches(ps, name) == {i \in 1..Len(ps) : Contains(Lower(ps[i].name), Lower(name))}

\* the partial-match loop alone
FirstPartialMatch(ps, name) ==
    IF PartialMatches(ps, name) # {} THEN First(PartialMatches(ps, name)) ELSE 0

\* the index of the project found, 0 for None
get_project_by_name(ps, name) ==
    IF ExactMatches(ps, name) # {} THEN First(ExactMatches(ps, name))
    ELSE IF PartialMatches(ps, name) # {} THEN First(PartialMatches(ps, name))
    ELSE 0

\* extracted with its project_name mapped to the project at index i
Resolved(extracted, ps, i) ==
    IF i # 0
    THEN [k \in DOMAIN extracted \cup {"project_id"} |->
             CASE k = "project_id"   -> Num(ps[i].id)
               [] k = "project_name" -> Str(ps[i].name)
               [] OTHER              -> extracted[k]]
    ELSE [extracted EXCEPT !["project_name"] = Null]

\* the try block once json.loads gave a dict; name.lower() raises on a
\* project_name that is not a string, and the except clause returns {}
ExtractedFrom(extracted, ps) ==
    IF ~Truthy(Get(extracted, "project_name")) THEN extracted
    ELSE IF extracted["project_name"][1] # "str" THEN EmptyDict
    ELSE Resolved(extracted, ps,
                  get_project_by_name(ps, extracted["project_name"][2]))

\* what _extract_information returns when chat() does reply; {} when chat or
\* json.loads raises, or the value has no get
_extract_information(reply, ps) ==
    IF reply[1] # "json" THEN EmptyDict
    ELSE IF reply[2][1] # "dict" THEN EmptyDict
    ELSE ExtractedFrom(reply[2][2], ps)

\* every key of the extraction result is taken over, whatever its value
Overwritten(info, extraction_result) ==
    [key \in DOMAIN info \cup DOMAIN extraction_result |->
        IF key \in DOMAIN extraction_result THEN extraction_result[key] ELSE info[key]]

\* the update loop of process_user_response
Merged(info, extraction_result) ==
    [key \in DOMAIN info |->
        IF key \in DOMAIN extraction_result /\ Truthy(extraction_result[key])
        THEN extraction_result[key]
        ELSE info[key]]

Required == <<"project_id", "subject", "description">>

\* a field counts as missing only when it is falsy
IsFalsy(value) == ~Truthy(value)

\* not value or (isinstance(value, str) and len(value.strip()) < 3)
IsMissing(value) == ~Truthy(value) \/ (value[1] = "str" /\ Len(Strip(value[2])) < 3)

get_missing_required_fields(info) ==
    SelectSeq(Required, LAMBDA field : IsMissing(info[field]))

is_ready_to_submit(info) == Len(get_missing_required_fields(info)) = 0

IsArtifact(c) == c \in {"\"", "{", "}"}

LastNonArtifact(s) ==
    CHOOSE j \in 0..Len(s) :
        (j = 0 \/ ~IsArtifact(Ch(s, j))) /\ \A k \in (j + 1)..Len(s) : IsArtifact(Ch(s, k))

\* str.strip('"{}')
StripArtifacts(s) == Slice(s, 1 + RunLen(s, 1, IsArtifact), LastNonArtifact(s))

\* the except branch of ask_next_question
FallbackQuestion(missing) ==
    IF \E k \in 1..Len(missing) : missing[k] = "project_id"
    THEN "Which project should this ticket be created for?"
    ELSE IF \E k \in 1..Len(missing) : missing[k] = "subject"
    THEN "What should be the title or subject of this ticket?"
    ELSE IF \E k \in 1..Len(missing) : missing[k] = "description"
    THEN "Can you provide more details about what needs to be done?"
    ELSE "Is there anything else you'd like to add?"

\* ask_next_question, chat() answering question
ask_next_question(question, info) ==
    IF get_missing_required_fields(info) = << >> THEN "summary"
    ELSE IF question[1] = "says" THEN StripArtifacts(Strip(question[2]))
    ELSE FallbackQuestion(get_missing_required_fields(info))

ReqExchange(user_input, response) ==
    <<[role |-> "user", content |-> user_input], [role |-> "assistant", content |-> response]>>

\* process_user_response once the extraction is merged into info
ReqRespondWith(user_input, reply, info, response) ==
    /\ req_history' = req_history \o ReqExchange(user_input, response)
    /\ extracted_info' = info
    /\ req_state' = IF is_ready_to_submit(info) THEN "confirming" ELSE req_state
    /\ reqCall' = [op |-> "process_user_response", arg |-> reply, ret |-> response]
    /\ UNCHANGED <<projects, normVars, agentVars, flowVars, runVars>>

ReqRespondTo(user_input, reply, question, info) ==
    ReqRespondWith(user_input, reply, info,
                   IF is_ready_to_submit(info) THEN "summary"
                   ELSE ask_next_question(question, info))

\* RequirementsAgent.process_user_response, the two chat() calls answering
\* reply and question
req_process_user_response(user_input, reply, question) ==
    ReqRespondTo(user_input, reply, question,
                 Merged(extracted_info, _extract_information(reply, projects)))

start_conversation ==
    /\ req_state' = "gathering"
    /\ req_history' = Append(req_history, [role |-> "assistant", content |-> "greeting"])
    /\ reqCall' = [op |-> "start_conversation", arg |-> Null, ret |-> "greeting"]
    /\ UNCHANGED <<extracted_info, projects, normVars, agentVars, flowVars, runVars>>

\* RequirementsAgent.reset; load_projects fetches the list ps
req_reset(ps) ==
    /\ req_history' = << >>
    /\ extracted_info' = NoInfo
    /\ req_state' = "greeting"
    /\ projects' = ps
    /\ reqCall' = [op |-> "reset", arg |-> Null, ret |-> ""]
    /\ UNCHANGED <<normVars, agentVars, flowVars, runVars>>

-----------------------------------------------------------------------------
(* A conversation with one RequirementsAgent.                              *)

MaxExchanges == 2

\* what list_redmine_projects may return
ProjectLists ==
    { << >>,
      <<[id |-> 1, name |-> "Alpha Beta"], [id |-> 2, name |-> "Alpha"],
        [id |-> 3, name |-> "Betamax"]>> }

\* what chat() may do when asked to extract
ExtractionReplies ==
    { ChatRaises, ChatText, ChatJson(List(<< >>)), ChatJson(Dict(EmptyDict)),
      ChatJson(Dict([project_name |-> Str("alpha")])),
      ChatJson(Dict([project_name |-> Str("BETA"), subject |-> Str("Fix login")])),
      ChatJson(Dict([project_name |-> Str("Gamma"), subject |-> Str("ab"),
                     description |-> Str("The login page fails")])),
      ChatJson(Dict([project_name |-> Num(5), subject |-> Str("Fix login")])),
      ChatJson(Dict([project_name |-> Null, subject |-> Str(" ab "), priority |-> Str("High"),
                     status |-> Str("New")])),
      ChatJson(Dict([subject |-> Str("Fix login"), description |-> Str("The login page fails")])),
      ChatJson(Dict([project_name |-> Str("Alpha"), subject |-> Str("Fix login"),
                     description |-> Str("The login page fails")])),
      ChatJson(Dict([project_id |-> Num(99), project_name |-> Str("Gamma")])) }

\* what chat() may do when asked for the next question
QuestionReplies == { ChatRaises, Says(" \"Which project is this for?\" ") }

UserSays == { "the login is broken" }

InitReq ==
    /\ NormIdle
    /\ AgentInit
    /\ FlowIdle
    /\ RunIdle
    /\ req_history = << >>
    /\ extracted_info = NoInfo
    /\ projects \in ProjectLists
    /\ req_state = "greeting"
    /\ reqCall = [op |-> "__init__", arg |-> Null, ret |-> ""]

StartConversation ==
    /\ Len(req_history) < 2 * MaxExchanges
    /\ start_conversation

ReqProcessUserResponse ==
    /\ Len(req_history) < 2 * MaxExchanges
    /\ \E user_input \in UserSays, reply \in ExtractionReplies, question \in QuestionReplies :
           req_process_user_response(user_input, reply, question)

ReqReset == \E ps \in ProjectLists : req_reset(ps)

NextReq == StartConversation \/ ReqProcessUserResponse \/ ReqReset

SpecReq == InitReq /\ [][NextReq]_vars


-----------------------------------------------------------------------------
(* Properties of RequirementsAgent, stated on SpecReq.                     *)

\* a step of process_user_response
ReqResponds ==
    /\ reqCall'.op = "process_user_response"
    /\ Len(req_history') = Len(req_history) + 2

\* a required field that is null, empty, or a string of fewer than 3
\* characters once trimmed
LacksField(info, field) ==
    \/ info[field] = Null
    \/ info[field] = Str("")
    \/ (info[field][1] = "str" /\ Len(Strip(info[field][2])) < 3)

NothingLacking(info) ==
    \A field \in {"project_id", "subject", "description"} : ~LacksField(info, field)

\* the question about the first lacking field: project, subject, description
QuestionAbout(info) ==
    IF LacksField(info, "project_id") THEN "Which project should this ticket be created for?"
    ELSE IF LacksField(info, "subject") THEN "What should be the title or subject of this ticket?"
    ELSE "Can you provide more details about what needs to be done?"

\* the questions chat() words, as they reach the user
ChatQuestions == {"Which project is this for?"}

\* C17: after process_user_response the state is 'confirming', with the
\* summary returned, exactly when none of project_id, subject, description
\* is missing after the merge; otherwise the state is unchanged and one next
\* question is returned.
C17_ConfirmingIffNothingMissing ==
    [][ReqResponds =>
          IF NothingLacking(extracted_info')
          THEN req_state' = "confirming" /\ reqCall'.ret = "summary"
          ELSE /\ req_state' = req_state
               /\ reqCall'.ret \in ChatQuestions \cup {QuestionAbout(extracted_info')}]_vars

C17_ConfirmingAfterResponse ==
    /\ reqCall.op = "process_user_response"
    /\ req_state = "confirming"
    /\ reqCall.ret = "summary"
    /\ extracted_info.subject = Str("Fix login")

\* the stored name is null or the exact name of a project in the list
NameInList(stored, ps) == stored = Null \/ \E i \in 1..Len(ps) : stored = Str(ps[i].name)

\* the reply names a project
NamesProject(reply) ==
    /\ reply[1] = "json"
    /\ reply[2][1] = "dict"
    /\ "project_name" \in DOMAIN reply[2][2]
    /\ reply[2][2]["project_name"][1] = "str"
    /\ reply[2][2]["project_name"][2] # ""

SameName(a, b) == Lower(a) = Lower(b)

HasName(a, b) == Contains(Lower(a), Lower(b))

\* project i is the one the name n resolves to: the first whose name equals
\* n whatever the case, and only when there is none the first that contains it
ResolvesTo(ps, n, i) ==
    IF \E j \in 1..Len(ps) : SameName(ps[j].name, n)
    THEN SameName(ps[i].name, n) /\ \A j \in 1..(i - 1) : ~SameName(ps[j].name, n)
    ELSE HasName(ps[i].name, n) /\ \A j \in 1..(i - 1) : ~HasName(ps[j].name, n)

\* C18: the stored project_name is always null or the exact name of a listed
\* project; an extracted name is stored as the name (and id) of the project
\* it equals case-insensitively, else of the first project whose name
\* contains it, and with no match the stored name stays as it was.
C18_ProjectNameResolved ==
    [][/\ NameInList(extracted_info'.project_name, projects')
       /\ (ReqResponds /\ NamesProject(reqCall'.arg)) =>
              IF \E i \in 1..Len(projects) :
                     ResolvesTo(projects, reqCall'.arg[2][2]["project_name"][2], i)
              THEN \E i \in 1..Len(projects) :
                     /\ ResolvesTo(projects, reqCall'.arg[2][2]["project_name"][2], i)
                     /\ extracted_info'.project_name = Str(projects[i].name)
                     /\ extracted_info'.project_id = Num(projects[i].id)
              ELSE extracted_info'.project_name = extracted_info.project_name]_vars

C18_ExactMatchBeatsSubstring ==
    /\ reqCall.op = "process_user_response"
    /\ reqCall.arg = ChatJson(Dict([project_name |-> Str("alpha")]))
    /\ Len(projects) = 3
    /\ projects[1].name = "Alpha Beta"
    /\ extracted_info.project_name = Str("Alpha")
    /\ extracted_info.project_id = Num(2)

\* the moves of greeting -> gathering -> confirming -> complete
ForwardMoves ==
    {<<"greeting", "gathering">>, <<"gathering", "confirming">>, <<"confirming", "complete">>}

\* C19: the state moves only along greeting -> gathering -> confirming ->
\* complete; no operation other than reset moves it back or skips a state.
C19_StateMovesForward ==
    [][req_state' # req_state =>
          (reqCall'.op = "reset" \/ <<req_state, req_state'>> \in ForwardMoves)]_vars


-----------------------------------------------------------------------------
(* More properties of NotificationAgent.                                   *)

\* C23: confirm_modifications moves a session in state 'review_needed' to
\* 'complete' and leaves notification_data, validation_errors and
\* modifications_made unchanged.
C23_ConfirmKeepsLists ==
    [][(state = "review_needed" /\ lastCall'.op = "confirm_modifications") =>
          /\ state' = "complete"
          /\ notification_data' = notification_data
          /\ validation_errors' = validation_errors
          /\ modifications_made' = modifications_made]_vars

C23_ConfirmedAfterReview ==
    /\ lastCall.op = "confirm_modifications"
    /\ state = "complete"
    /\ validation_errors = << >>
    /\ modifications_made # << >>
    /\ notification_data # << >>

\* the text holds a run of two or more underscores
HasBlank(text) == Contains(text, "__")

\* repairing the text again changes nothing and logs nothing
SubjectSettled(text) == RepairSubject(text, "1", << >>) = [text |-> text, mods |-> << >>]

EmailSettled(text) == RepairEmail(text, "1", << >>) = [text |-> text, mods |-> << >>]

\* C24: after _parse_and_validate no record's Subject or Email holds a run of
\* two or more underscores, and repairing them again changes no text and
\* logs no note.
C24_RepairLeavesNoBlanks ==
    lastCall.op = "start_validation" =>
        \A i \in 1..Len(notification_data) :
            /\ ~HasBlank(notification_data[i][2].Subject[2])
            /\ ~HasBlank(notification_data[i][2].Email[2])
            /\ SubjectSettled(notification_data[i][2].Subject[2])
            /\ EmailSettled(notification_data[i][2].Email[2])

C24_BlanksRepaired ==
    /\ lastCall.op = "start_validation"
    /\ HasBlank(lastCall.arg)
    /\ \E i \in 1..Len(notification_data) :
           /\ Contains(notification_data[i][2].Subject[2], "Permit [Address]")
           /\ Contains(notification_data[i][2].Email[2], "[Address]")

\* C26: in every reachable state, state 'complete' implies that
\* validation_errors is empty and notification_data holds a record.
C26_CompleteMeansValidData ==
    state = "complete" => (validation_errors = << >> /\ Len(notification_data) >= 1)


-----------------------------------------------------------------------------
(* More properties of RequirementsAgent.                                   *)

\* a slot that holds something: neither null nor empty
Filled(value) == value # Null /\ value # Str("")

\* C25: extracted_info keeps its eight slots, a slot changes only to a
\* non-empty value, and no operation other than reset sets a filled slot back
\* to null or empty.
C25_FilledSlotsStayFilled ==
    [][/\ DOMAIN extracted_info' = DOMAIN NoInfo
       /\ reqCall'.op # "reset" =>
              \A key \in DOMAIN NoInfo :
                  /\ Filled(extracted_info[key]) => Filled(extracted_info'[key])
                  /\ extracted_info'[key] # extracted_info[key] => Filled(extracted_info'[key])]_vars

C25_NullAndUnknownKeysIgnored ==
    /\ reqCall.op = "process_user_response"
    /\ reqCall.arg[1] = "json"
    /\ reqCall.arg[2][1] = "dict"
    /\ "status" \in DOMAIN reqCall.arg[2][2]
    /\ reqCall.arg[2][2]["project_name"] = Null
    /\ extracted_info.project_name = Str("Alpha")
    /\ extracted_info.priority = Str("High")

\* C27: in every reachable state, state 'confirming' implies that none of
\* project_id, subject, description is missing.
C27_ConfirmingMeansComplete ==
    req_state = "confirming" => NothingLacking(extracted_info)

\* C29: a stored project_id is the id of a listed project, the one whose
\* name is the stored project_name.
C29_ProjectIdMatchesName ==
    extracted_info.project_id # Null =>
        \E i \in 1..Len(projects) :
            /\ extracted_info.project_id = Num(projects[i].id)
            /\ extracted_info.project_name = Str(projects[i].name)


-----------------------------------------------------------------------------
(* More properties of build_flow_xml.                                      *)

\* the element names of a document: the <name> that opens a decisions,
\* recordCreates or actionCalls element
ElementNames(s) ==
    { s[j + 2] : j \in { k \in 1..(Len(s) - 2) :
                           /\ s[k] \in {"<decisions>", "<recordCreates>", "<actionCalls>"}
                           /\ s[k + 1] = "<name>" } }

\* C28: in every document build_flow_xml returns, each connector target other
\* than 'done' is the name of an element of the document.
C28_ConnectorTargetsExist ==
    pc = "built" =>
        \A i \in 1..(Len(xml) - 1) :
            xml[i] = "<targetReference>" =>
                xml[i + 1] = "done" \/ xml[i + 1] \in ElementNames(xml)


-----------------------------------------------------------------------------
(* graph.py: the flow pipeline plan -> inspect -> draft.  A reply of chat is
   ChatRaises, ChatText (prose without a JSON document), ChatJson(v) (the JSON
   text of v and nothing else) or ChatProse(v) (prose around the JSON text of
   the object v).  calls is the log of what the run asked of the LLM, the CLI
   and the file system. *)

ChatProse(v) == <<"prose", v>>

\* try_parse keeps the text from the first "{" to the last "}" and decodes
\* it; the values drawn below that are not objects hold no brace, so they are
\* decoded whole
try_parse(txt) == IF txt[1] \in {"json", "prose"} THEN txt[2] ELSE Null

ChatCall(prompt, reply) == [op |-> "chat", arg |-> prompt, ret |-> reply]

\* if not data: the second, JSON-only call
Retries(raw) == raw # ChatRaises /\ ~Truthy(try_parse(raw))

\* _plan_node: the calls it makes to chat
PlanCalls(raw, raw2) ==
    IF Retries(raw)
    THEN <<ChatCall("sys_prompt", raw), ChatCall("sys_prompt_retry", raw2)>>
    ELSE <<ChatCall("sys_prompt", raw)>>

\* data after the retry
PlanData(raw, raw2) ==
    IF raw = ChatRaises THEN Null
    ELSE IF ~Retries(raw) THEN try_parse(raw)
    ELSE IF raw2 = ChatRaises THEN Null
    ELSE try_parse(raw2)

\* _plan_node: json.dumps(data) gives parse_spec the document it decodes back
_plan_node(raw, raw2) ==
    IF raw = ChatRaises \/ (Retries(raw) /\ raw2 = ChatRaises) THEN Raise("ChatError")
    ELSE IF ~Truthy(PlanData(raw, raw2)) THEN Raise("RuntimeError")
    ELSE parse_spec(PlanData(raw, raw2))

\* write_flow_package with cfg = None: the directories, the document, then the
\* two files
WriteText(file) == [op |-> "write_text", arg |-> file, ret |-> Null]

WritesOf(spec, built) ==
    <<[op |-> "mkdir", arg |-> spec.flow_label, ret |-> Null]>>
    \o (IF built.exc # "" THEN << >>
        ELSE <<WriteText("flow-meta.xml"), WriteText("sfdx-project.json")>>)

write_flow_package(spec) == WritesOf(spec, build_flow_xml(spec, Null))

PlannerDocuments ==
    XmlDocuments
    \cup {Doc(l, Str("Account"), Str("Update"), Absent, Absent) : l \in LabelChoices}

PlannerReplies ==
    {ChatRaises, ChatText, ChatJson(Null), ChatJson(Dict(EmptyDict)),
     ChatJson(List(<<Num(1)>>)), ChatJson(Num(5)),
     ChatProse(Doc(Str("MyFlow"), Str("Account"), Str("Update"), Absent, Absent))}
    \cup {ChatJson(d) : d \in PlannerDocuments}

InitGraph ==
    /\ data = Null
    /\ flowspec = Ret(Null)
    /\ pc = "plan"
    /\ AgentInit
    /\ FlowIdle
    /\ ReqIdle
    /\ RunIdle

\* the plan node; an exception ends the run
PlanNode ==
    /\ pc = "plan"
    /\ \E raw \in PlannerReplies, raw2 \in PlannerReplies :
          /\ calls' = PlanCalls(raw, raw2)
          /\ data' = PlanData(raw, raw2)
          /\ flowspec' = _plan_node(raw, raw2)
          /\ pc' = IF _plan_node(raw, raw2).exc = "" THEN "inspect" ELSE "failed"
    /\ UNCHANGED <<agentVars, flowVars, reqVars>>

\* the inspect node carries the plan forward; unless SKIP_INSPECT is set it
\* asks the CLI for the fields of the object
InspectNode ==
    /\ pc = "inspect"
    /\ \E skip \in BOOLEAN :
          calls' = IF skip THEN calls
                   ELSE Append(calls, [op |-> "list_object_fields",
                                       arg |-> flowspec.val.object_api, ret |-> Null])
    /\ pc' = "draft"
    /\ UNCHANGED <<data, flowspec, agentVars, flowVars, reqVars>>

\* the draft node: FlowSpec(**plan) validates the label again, then
\* write_flow_package
DraftNode ==
    /\ pc = "draft"
    /\ calls' = IF no_spaces(flowspec.val.flow_label).exc # "" THEN calls
                ELSE calls \o write_flow_package(flowspec.val)
    /\ xml' = IF /\ no_spaces(flowspec.val.flow_label).exc = ""
                 /\ build_flow_xml(flowspec.val, Null).exc = ""
              THEN build_flow_xml(flowspec.val, Null).val ELSE << >>
    /\ pc' = IF /\ no_spaces(flowspec.val.flow_label).exc = ""
                /\ build_flow_xml(flowspec.val, Null).exc = ""
             THEN "end" ELSE "failed"
    /\ UNCHANGED <<data, flowspec, cfg, fixes, passes, agentVars, reqVars>>

NextGraph == PlanNode \/ InspectNode \/ DraftNode

SpecGraph == InitGraph /\ [][NextGraph]_vars

\* the files a run wrote
Written(log) == { log[i].arg : i \in { k \in 1..Len(log) : log[k].op = "write_text" } }

\* C21: the flow file and the package descriptor are written only after the
\* planner's output was decoded and normalised into a valid FlowSpec, one
\* whose flow_label is non-empty and made of [A-Za-z0-9_] alone.
C21_WrittenOnlyFromValidPlan ==
    Written(calls) # {} =>
        /\ data[1] = "dict"
        /\ flowspec.exc = ""
        /\ flowspec.val.flow_label # ""
        /\ \A k \in 1..Len(flowspec.val.flow_label) : IsWordChar(Ch(flowspec.val.flow_label, k))

\* the replies chat gave in a run
ChatCalls(log) == SelectSeq(log, LAMBDA c : c.op = "chat")

\* the reply holds a JSON object that is not empty
YieldsObject(reply) ==
    /\ reply[1] \in {"json", "prose"}
    /\ reply[2][1] = "dict"
    /\ DOMAIN reply[2][2] # {}

\* C30: the plan step calls the LLM at most twice; it makes the second call
\* exactly when the first reply yields no JSON object or an empty one, and
\* when the second reply yields none either the step raises.
C30_SecondCallExactlyOnNoObject ==
    (pc \in {"inspect", "draft", "end", "failed"} /\ calls[1].ret # ChatRaises) =>
        /\ Len(ChatCalls(calls)) <= 2
        /\ Len(ChatCalls(calls)) = 2 <=> ~YieldsObject(calls[1].ret)
        /\ (/\ Len(ChatCalls(calls)) = 2
            /\ ~YieldsObject(calls[2].ret)) => flowspec.exc # ""


-----------------------------------------------------------------------------
(* tools/sf_cli.py: deploy_source_dir.  What the CLI gives back for one
   attempt is its exit code, the text it printed, and what json.loads makes
   of that text (Absent when the text is not JSON). *)

Output(code, out, decoded) == [code |-> code, out |-> out, decoded |-> decoded]

\* str(f.get("error") or f.get("problem") or "")
FileIssue(f) == Format(Or(Or(Get(f[2], "error"), Get(f[2], "problem")), Str("")))

\* files = res.get("files") or []; a single dict is wrapped into a list
FilesOf(res) ==
    IF Or(Get(res[2], "files"), List(<< >>))[1] = "dict"
    THEN List(<<Or(Get(res[2], "files"), List(<< >>))>>)
    ELSE Or(Get(res[2], "files"), List(<< >>))

\* " | ".join(...).strip() over the files, or the text itself when the join is
\* empty or anything on the way raises
MergedIssues(o, files) ==
    IF files[1] # "list" \/ \E i \in 1..Len(files[2]) : files[2][i][1] # "dict" THEN o.out
    ELSE IF Strip(Join([i \in 1..Len(files[2]) |-> FileIssue(files[2][i])], " | ")) = "" THEN o.out
    ELSE Strip(Join([i \in 1..Len(files[2]) |-> FileIssue(files[2][i])], " | "))

ResultIssues(o, res) == IF res[1] # "dict" THEN o.out ELSE MergedIssues(o, FilesOf(res))

\* issues_text of lines 197-210
IssuesText(o) ==
    IF o.decoded = Absent \/ o.decoded[1] # "dict" THEN o.out
    ELSE ResultIssues(o, GetOr(o.decoded[2], "result", o.decoded))

\* any(k in issues_text for k in ("locationX", "locationY", "rules"))
AutoFixable(issues_text) ==
    \E k \in {"locationX", "locationY", "rules"} : Contains(issues_text, k)

\* what the RuntimeError of a failed retry carries is the first attempt's output
FirstOutput(out, out2) == out

\* raise RuntimeError(out2)
Bubbled(out, out2) == out2

RunDeploy(o) == [op |-> "_run_deploy", arg |-> "flows", ret |-> <<"exit", o>>]

AutofixCall(xmltext) ==
    [op |-> "apply_autofix", arg |-> "flows",
     ret |-> <<"fixes", autofix_locations_and_connectors(xmltext).fixes>>]

\* apply_autofix: the file is rewritten only when there are fixes
apply_autofix(xmltext) ==
    IF autofix_locations_and_connectors(xmltext).fixes # << >>
    THEN autofix_locations_and_connectors(xmltext).xml
    ELSE xmltext

\* deploy_source_dir from the first attempt on: the calls it makes, the flow
\* file it leaves, and how it ends
deploy_source_dir(xmltext, first, second) ==
    IF first.code = 0
    THEN [calls |-> <<RunDeploy(first)>>, xml |-> xmltext, result |-> Ret(Null)]
    ELSE IF ~AutoFixable(IssuesText(first))
    THEN [calls |-> <<RunDeploy(first)>>, xml |-> xmltext,
          result |-> [exc |-> "RuntimeError", val |-> Str(first.out)]]
    ELSE [calls |-> <<RunDeploy(first), AutofixCall(xmltext), RunDeploy(second)>>,
          xml |-> apply_autofix(xmltext),
          result |-> IF second.code = 0 THEN Ret(Null)
                     ELSE [exc |-> "RuntimeError", val |-> Str(Bubbled(first.out, second.out))]]

DeployOutputs ==
    { Output(0, "{\"status\": 0}", Dict([status |-> Num(0)])),
      Output(1, "Error: element is missing locationX", Absent),
      Output(1, "ECONNRESET", Absent),
      Output(1, "{\"result\": {\"files\": [{\"error\": \"decisions needs rules\"}]}}",
             Dict([result |-> Dict([files |-> List(<<Dict([error |-> Str("decisions needs rules")])>>)])])),
      Output(1, "{\"result\": {\"files\": {\"problem\": \"Invalid field\", \"filePath\": \"flows/rules.flow-meta.xml\"}}}",
             Dict([result |-> Dict([files |-> Dict([problem |-> Str("Invalid field"),
                                                     filePath |-> Str("flows/rules.flow-meta.xml")])])])),
      Output(1, "{\"message\": \"locationY is required\"}", Dict([message |-> Str("locationY is required")])),
      Output(1, "[]", List(<< >>)) }

\* the flow files deployed: no element, or one
DeployTexts == { <<"<Flow>">> \o e \o <<"</Flow>">> : e \in ElementChoices \cup {<< >>} }

InitDeploy ==
    /\ data = Null
    /\ flowspec = Ret(Null)
    /\ pc = "deploy"
    /\ AgentInit
    /\ cfg = Null
    /\ xml \in DeployTexts
    /\ fixes = << >>
    /\ passes = 0
    /\ ReqIdle
    /\ RunIdle

\* the checks before the first attempt: the CLI, the flows folder, the flow file
DeployUnavailable ==
    /\ pc = "deploy"
    /\ flowspec' = [exc |-> "RuntimeError", val |-> Str("not found")]
    /\ pc' = "deploy_raised"
    /\ UNCHANGED <<data, agentVars, flowVars, reqVars, runVars>>

DeploySourceDir ==
    /\ pc = "deploy"
    /\ \E first \in DeployOutputs, second \in DeployOutputs :
          /\ calls' = deploy_source_dir(xml, first, second).calls
          /\ xml' = deploy_source_dir(xml, first, second).xml
          /\ flowspec' = deploy_source_dir(xml, first, second).result
          /\ pc' = IF deploy_source_dir(xml, first, second).result.exc = ""
                   THEN "deployed" ELSE "deploy_raised"
    /\ fixes' = IF Len(calls') = 3 THEN calls'[2].ret[2] ELSE fixes
    /\ passes' = IF Len(calls') = 3 THEN 1 ELSE 0
    /\ UNCHANGED <<data, cfg, agentVars, reqVars>>

NextDeploy == DeployUnavailable \/ DeploySourceDir

SpecDeploy == InitDeploy /\ [][NextDeploy]_vars

\* the positions in the log of the calls of one kind
CallsOf(log, op) == { i \in 1..Len(log) : log[i].op = op }

Failed(call) == call.ret[2].code # 0

\* C22: in a run of deploy_source_dir there are at most two deploy attempts
\* and at most one autofix, the autofix comes after a failed first attempt and
\* before the second attempt, and a failed second attempt raises an error that
\* carries the second attempt's output.
C22_OneAutofixThenOneRetry ==
    pc \in {"deployed", "deploy_raised"} =>
        /\ Cardinality(CallsOf(calls, "_run_deploy")) <= 2
        /\ Cardinality(CallsOf(calls, "apply_autofix")) <= 1
        /\ Len(calls) = Cardinality(CallsOf(calls, "_run_deploy"))
                        + Cardinality(CallsOf(calls, "apply_autofix"))
        /\ (CallsOf(calls, "apply_autofix") # {} \/ Cardinality(CallsOf(calls, "_run_deploy")) = 2) =>
              /\ CallsOf(calls, "apply_autofix") = {2}
              /\ CallsOf(calls, "_run_deploy") = {1, 3}
              /\ Failed(calls[1])
              /\ Failed(calls[3]) => flowspec = [exc |-> "RuntimeError", val |-> Str(calls[3].ret[2].out)]
              /\ ~Failed(calls[3]) => flowspec = Ret(Null)

\* a retry that failed with another output than the first attempt's
C22_RetryFailedDifferently ==
    /\ pc = "deploy_raised"
    /\ Len(calls) = 3
    /\ calls[2].ret[2] # << >>
    /\ calls[3].ret[2].out # calls[1].ret[2].out
    /\ flowspec.val = Str(calls[3].ret[2].out)

====
